---- MODULE Spec2Model ----
(***************************************************************************)
(* video2mp3: the job lifecycle.  The API process creates job rows and     *)
(* enqueues asynq tasks (cmd/api/main.go); the worker process drains the   *)
(* tasks and drives each job through resolve, download, transcode and      *)
(* upload (cmd/worker/main.go); both write the jobs table through          *)
(* internal/store/store.go.                                                *)
(***************************************************************************)
EXTENDS Integers, Sequences, FiniteSets, TLC

(* ------------------------------- state -------------------------------- *)

VARIABLES
  jobs,      \* the jobs table: job ID -> row (NoJob when there is no row)
  created,   \* how many job IDs the API has handed out
  tasks,     \* the asynq queue: task slot -> task (NoTask when unused)
  blobs,     \* the object keys present in the bucket
  inflight,  \* job ID -> retry requests that read a retryable status and have not updated yet
  retrying,  \* job ID -> the SourceURL of the Job j that those requests read
  enqueuing, \* job ID -> the requests that wrote the job's row and have not called
             \* Enqueue yet: the POST /jobs that inserted it, and retry requests
  out,       \* what the step just taken answered: an HTTP response, or the error a
             \* handler invocation returned to asynq (NoOut when neither)
  watch,     \* whether out is recorded (it is in the specifications that read it)
  rerun,     \* the sequential re-run of one task (RerunSpec only)
  stream,    \* the one GET /jobs/{id}/events request: where streamJobEvents is, its
             \* locals j and lastUpdated, and the events it has written
  hist,      \* the states the streamed row has held since the stream was opened
  clock,     \* the wall clock of the API process, in ticks
  rl,        \* the rateLimiter: entries and lastCleanup
  reqs,      \* the requests inside limiter.allow: request slot -> key and the now it read
  rlOut,     \* what the rate limit middleware answered to the request just handled
  admitted,  \* client key -> requests admitted in the key's current window
  dbNow,     \* the clock of the database, where it is followed (0 where it is not)
  sweep,     \* the calls of cleanupJobs: call slot -> where the call is, its cutoff,
             \* the items still to go through and its tallies
  fetch      \* the one call of downloadToFile: its attempt, the file at destPath and
             \* the requests it has sent

limiterVars == <<clock, rl, reqs, rlOut, admitted>>
jobVars == <<jobs, created, tasks, blobs, inflight, retrying, enqueuing, out, watch, rerun, stream, hist>>
extVars == <<dbNow, sweep, fetch>>
vars == <<jobs, created, tasks, blobs, inflight, retrying, enqueuing, out, watch, rerun, stream, hist, limiterVars, extVars>>

(* ------------------------------ bounds -------------------------------- *)

\* number of job rows ever created (uuid.NewString never repeats an ID)
MaxJobs == 1
\* number of tasks ever put on the queue (create, retry, duplicate delivery)
MaxTasks == 2
\* retry requests of one job that are between their GetJob and their update
MaxInflight == 2
\* states of the streamed row that are followed after the stream was opened
MaxHist == 3
\* keepalive comments one stream writes
MaxKeepalives == 1
\* requests that are inside limiter.allow at the same time
MaxConcurrent == 2
\* RATE_LIMIT_PER_MIN, the limit given to rateLimitMiddleware
Limit == 3
\* clock ticks in one second
TicksPerSecond == 2
\* the limit cleanupJobs gives to ListJobsBefore (200), scaled down
PageSize == 2
\* rows of the jobs table that the retention sweep is followed on
MaxRows == 3
\* the latest created_at of a row that is in the table when the sweep starts
MaxAge == 2
\* blob deletions one call of cleanupJobs is followed for
MaxTally == 3
\* calls of cleanupJobs that run at the same time (POST /admin/cleanup requests,
\* the cleanup ticker)
MaxSweeps == 2
\* writes of one row after the start that the table under the sweep is
\* followed for
MaxWrites == 2
\* the latest updated_at a row is followed to, in ticks
MaxStamp == 6
\* length of the media file that downloadToFile fetches, in bytes
MaxLen == 3

(* ------------------------- program constants -------------------------- *)

\* asynq.MaxRetry(3): a failed task is run again at most three times
MaxRetry == 3
\* truncate(err.Error(), 800) in recordFailure
MaxErrLen == 800
\* const maxAttempts = 3 in downloadToFile
maxAttempts == 3

\* time.Minute, the window given to rateLimitMiddleware, in seconds
WindowSeconds == 60
Window == WindowSeconds * TicksPerSecond

StatusQueued == "queued"
StatusDownloading == "downloading"
StatusTranscoding == "transcoding"
StatusReady == "ready"
StatusFailed == "failed"
StatusExpired == "expired"

JobIds == 1..MaxJobs
TaskIds == 1..MaxTasks

(* --------------------------- the jobs table --------------------------- *)

\* sql.NullString: a NULL column is {Valid: false}
NullString == [valid |-> FALSE, str |-> ""]
\* the mp3_url column holds an object key (or NULL); keys are tuples here
NullKey == [valid |-> FALSE, key |-> <<>>]

\* no row with this primary key (sql.ErrNoRows on GetJob)
\* a URL, as the host and the path that url.Parse finds in it; the empty string
NoURL == [host |-> "", path |-> ""]

NoJob ==
  [id |-> 0, sourceURL |-> NoURL, platform |-> "", status |-> "absent", error |-> NullString,
   mp3 |-> NullKey, createdAt |-> 0, updatedAt |-> 0]

\* a variant whose created_at is the oldest time instead of NOW()
NewJobBackdated(id, sourceURL, plat, now) ==
  [id |-> id, sourceURL |-> sourceURL, platform |-> plat, status |-> StatusQueued,
   error |-> NullString, mp3 |-> NullKey, createdAt |-> 1, updatedAt |-> now]

\* a variant that inserts an empty error string in place of NULL
NewJobEmptyError(id, sourceURL, plat, now) ==
  [id |-> id, sourceURL |-> sourceURL, platform |-> plat, status |-> StatusQueued,
   error |-> [valid |-> TRUE, str |-> ""], mp3 |-> NullKey, createdAt |-> now, updatedAt |-> now]

\* INSERT INTO jobs ...: error and mp3_url are NULL for the Job the API builds
\* (ID, SourceURL, Platform, Status: queued); created_at and updated_at are
\* NOW() of the insertion
NewJob(id, sourceURL, plat, now) ==
  [id |-> id, sourceURL |-> sourceURL, platform |-> plat, status |-> StatusQueued,
   error |-> NullString, mp3 |-> NullKey, createdAt |-> now, updatedAt |-> now]

\* NOW() of a statement that comes after one that ran at the time old: a later
\* time, the one the database clock shows when that is later, else the next tick
Stamp(old) ==
  IF dbNow > old THEN dbNow ELSE old + 1

\* a variant without the WHERE clause
UpdateJobStatusAllRows(js, ok, id, status, errMsg, mp3URL) ==
  IF ok /\ js[id] # NoJob
    THEN [r \in DOMAIN js |->
            IF js[r] = NoJob THEN NoJob
            ELSE [js[r] EXCEPT !.status = status, !.error = errMsg, !.mp3 = mp3URL,
                               !.updatedAt = Stamp(@)]]
    ELSE js

\* a variant that leaves mp3_url alone when it is given NULL
UpdateJobStatusKeepMP3(js, ok, id, status, errMsg, mp3URL) ==
  IF ok /\ js[id] # NoJob
    THEN [js EXCEPT ![id] = [@ EXCEPT !.status = status, !.error = errMsg,
                                      !.mp3 = IF mp3URL.valid THEN mp3URL ELSE @,
                                      !.updatedAt = Stamp(@)]]
    ELSE js

\* a variant that leaves error alone when it is given NULL
UpdateJobStatusKeepError(js, ok, id, status, errMsg, mp3URL) ==
  IF ok /\ js[id] # NoJob
    THEN [js EXCEPT ![id] = [@ EXCEPT !.status = status, !.mp3 = mp3URL,
                                      !.error = IF errMsg.valid THEN errMsg ELSE @,
                                      !.updatedAt = Stamp(@)]]
    ELSE js

\* UPDATE jobs SET status=$2, error=$3, mp3_url=$4 WHERE id=$1.  ok is whether
\* ExecContext ran the statement: it does not when the database is unreachable
\* or when ctx is already done.  A missing row makes the UPDATE match nothing.
UpdateJobStatus(js, ok, id, status, errMsg, mp3URL) ==
  IF ok /\ js[id] # NoJob
    THEN [js EXCEPT ![id] = [@ EXCEPT !.status = status, !.error = errMsg, !.mp3 = mp3URL,
                                      !.updatedAt = Stamp(@)]]
    ELSE js

\* a variant that deletes the rows created at the cutoff as well
DeleteJobsUpTo(js, before) ==
  [id \in DOMAIN js |-> IF js[id] # NoJob /\ js[id].createdAt <= before THEN NoJob ELSE js[id]]

\* a variant that keeps the rows and marks them expired
ExpireJobsBefore(js, before) ==
  [id \in DOMAIN js |-> IF js[id] # NoJob /\ js[id].createdAt < before
                          THEN [js[id] EXCEPT !.status = StatusExpired] ELSE js[id]]

\* DELETE FROM jobs WHERE created_at < $1
DeleteJobsBefore(js, before) ==
  [id \in DOMAIN js |-> IF js[id] # NoJob /\ js[id].createdAt < before THEN NoJob ELSE js[id]]

\* RowsAffected of that DELETE
RowsAffected(js, before) ==
  Cardinality({id \in DOMAIN js : js[id] # NoJob /\ js[id].createdAt < before})

\* SELECT ... WHERE created_at < $1 ORDER BY created_at ASC LIMIT $2: the
\* results the query can return, each the sequence of the IDs of its rows.  Rows
\* created at the same instant come in either order, so there can be several
ListJobsBefore(js, before, limit) ==
  LET match == {id \in DOMAIN js : js[id] # NoJob /\ js[id].createdAt < before}
      n == IF Cardinality(match) < limit THEN Cardinality(match) ELSE limit
  IN {items \in [1..n -> match] :
        /\ \A i, k \in 1..n : i < k => /\ items[i] # items[k]
                                        /\ js[items[i]].createdAt <= js[items[k]].createdAt
        /\ \A i \in 1..n, o \in match \ {items[k] : k \in 1..n} :
              js[items[i]].createdAt <= js[o].createdAt}

(* ------------------------- worker: pure helpers ----------------------- *)

ErrMkdir == "mkdir: permission denied"
ErrParserRequest == "Post api/parse: connection refused"
ErrParserHTTP == "parser http status 500"
ErrParserDecode == "invalid character in response"
ErrParserNotSucc == "parser error: 500 failed"
ErrNoMedia == "parser returned no media url"
ErrEmptyMedia == "parser returned empty media url"
ErrDownload == "download http status 404"
ErrFFmpeg == "ffmpeg failed: exit status 1"
ErrUpload == "upload: connection refused"
ErrStore == "store: connection refused"
ErrCtx == "context deadline exceeded"

\* strings.TrimSpace(s) == ""
IsBlank(s) == s \in {"", " "}

truncate(s, max) ==
  IF max <= 0 \/ Len(s) <= max THEN s ELSE SubSeq(s, 1, max) \o "..."

\* what the parser service can answer to POST api/parse: no answer, a status
\* other than 200, a body that does not decode, or a body
MediaURLs == {"", " ", "http://cdn/x"}
ParserReplies ==
  {[kind |-> k, succ |-> FALSE, retcode |-> 0, video |-> "", audio |-> ""] :
      k \in {"request_error", "http_status", "decode_error"}}
  \cup {[kind |-> "response", succ |-> FALSE, retcode |-> 200, video |-> "http://cdn/x", audio |-> ""],
        [kind |-> "response", succ |-> TRUE, retcode |-> 500, video |-> "http://cdn/x", audio |-> ""]}
  \cup {[kind |-> "response", succ |-> TRUE, retcode |-> 200, video |-> v, audio |-> a] :
      v \in MediaURLs, a \in MediaURLs}

\* parseWithParser: the error ("" is nil) and the parserResult
parseWithParser(r) ==
  IF r.kind = "request_error" THEN [err |-> ErrParserRequest, video |-> "", audio |-> ""]
  ELSE IF r.kind = "http_status" THEN [err |-> ErrParserHTTP, video |-> "", audio |-> ""]
  ELSE IF r.kind = "decode_error" THEN [err |-> ErrParserDecode, video |-> "", audio |-> ""]
  ELSE IF ~r.succ \/ r.retcode # 200 THEN [err |-> ErrParserNotSucc, video |-> "", audio |-> ""]
  ELSE IF IsBlank(r.video) /\ IsBlank(r.audio) THEN [err |-> ErrNoMedia, video |-> "", audio |-> ""]
  ELSE [err |-> "", video |-> r.video, audio |-> r.audio]

\* downloadWithParser: the error it returns ("" is nil); fetchOk is whether
\* downloadToFile succeeded
downloadWithParser(r, fetchOk) ==
  LET parsed == parseWithParser(r)
      downloadURL == IF ~IsBlank(parsed.audio) THEN parsed.audio ELSE parsed.video
  IN IF parsed.err # "" THEN parsed.err
     ELSE IF IsBlank(downloadURL) THEN ErrEmptyMedia
     ELSE IF ~fetchOk THEN ErrDownload
     ELSE ""

\* strings.Contains(msg, sub) for the messages of this model
Contains(msg, sub) ==
  \E i \in 1..(Len(msg) - Len(sub) + 1) : SubSeq(msg, i, i + Len(sub) - 1) = sub

shouldSkipRetry(err) ==
  IF err = "" THEN FALSE
  ELSE IF Contains(err, "parser returned no media url") THEN TRUE
  ELSE IF Contains(err, "parser returned empty media url") THEN TRUE
  ELSE FALSE

\* a variant whose key differs from one run of the task to the next
ObjectKeyPerRun(jobID) == <<"jobs", jobID, rerun.phase>>

\* objectKey := fmt.Sprintf("jobs/%s.mp3", p.JobID)
ObjectKey(jobID) == <<"jobs", jobID>>

\* recordFailure: writes failed with the truncated message (the result of the
\* write is dropped) and returns the error, wrapped in asynq.SkipRetry or not.
\* next is where the handler invocation is afterwards: "return" here
recordFailure(js, ok, jobID, err) ==
  IF err = "" THEN [jobs |-> js, next |-> "return", err |-> "", skip |-> FALSE]
  ELSE LET msg == truncate(err, MaxErrLen)
       IN [jobs |-> UpdateJobStatus(js, ok, jobID, StatusFailed, [valid |-> TRUE, str |-> msg], NullKey),
           next |-> "return",
           err |-> err,
           skip |-> shouldSkipRetry(err)]

(* ---------------------- worker: downloadToFile ------------------------ *)

\* the bytes of the media file at the download URL
Media == [i \in 1..MaxLen |-> i]

\* the file at destPath: absent (os.Stat fails), or its bytes
NoFile == [exists |-> FALSE, data |-> <<>>]
File(data) == [exists |-> TRUE, data |-> data]

\* offset of downloadOnce: the size of the file at destPath, 0 when os.Stat fails
Offset(file) == IF file.exists THEN Len(file.data) ELSE 0

\* what client.Do and the response body can give to a GET whose Range header
\* is bytes=offset- (none when offset is 0): no response (code 0); a status
\* without the media (500, 429, 404; 416 to a Range); 200 with the whole
\* file, also to a Range that the origin ignores; 206 with the bytes from
\* offset on.  got is how many bytes of the body arrive before the connection
\* ends: all of them, or fewer (io.Copy fails with unexpected EOF)
Reply(code, body, got) == [code |-> code, body |-> body, got |-> got]
Replies(offset) ==
  {Reply(c, <<>>, 0) : c \in {0, 500, 429, 404}}
  \cup {Reply(200, Media, n) : n \in 0..MaxLen}
  \cup (IF offset > 0 THEN {Reply(416, <<>>, 0)} ELSE {})
  \cup (IF offset > 0 /\ offset < MaxLen
          THEN {Reply(206, SubSeq(Media, offset + 1, MaxLen), n) : n \in 0..(MaxLen - offset)}
          ELSE {})

\* a variant that appends to the partial file whatever the status is
AppendsToPartial(code, offset) == offset > 0

\* whether downloadOnce opens destPath with O_APPEND (else os.Create truncates it)
Appends(code, offset) == code = 206 /\ offset > 0

\* a variant that keeps the file
RangeNotSatisfiableKeeps(file) == file

\* case http.StatusRequestedRangeNotSatisfiable: _ = os.Remove(destPath)
RangeNotSatisfiable(file) == NoFile

\* fmt.Errorf("download http status %d", resp.StatusCode)
StatusErr(code) ==
  CASE code = 404 -> "download http status 404"
    [] code = 416 -> "download http status 416"
    [] code = 429 -> "download http status 429"
    [] code = 500 -> "download http status 500"

\* a variant that retries whatever the status is
RetryableStatusAny(code) == TRUE

\* retryable := resp.StatusCode >= 500 || resp.StatusCode == http.StatusTooManyRequests
RetryableStatus(code) == code >= 500 \/ code = 429

\* downloadOnce: the file at destPath afterwards, the error ("" is nil) and
\* whether isRetryableDownload holds of it
downloadOnce(file, r) ==
  IF r.code = 0
    THEN [file |-> file, err |-> "Get: connection reset", retryable |-> TRUE]
  ELSE IF r.code = 416
    THEN [file |-> RangeNotSatisfiable(file), err |-> StatusErr(r.code), retryable |-> TRUE]
  ELSE IF r.code \notin {200, 206}
    THEN [file |-> file, err |-> StatusErr(r.code), retryable |-> RetryableStatus(r.code)]
  ELSE LET kept == IF Appends(r.code, Offset(file)) THEN file.data ELSE <<>>
       IN [file |-> File(kept \o SubSeq(r.body, 1, r.got)),
           err |-> IF r.got < Len(r.body) THEN "unexpected EOF" ELSE "",
           retryable |-> TRUE]

\* downloadToFile is called.  destPath is workDir/jobID.ext: it is absent, or
\* it is what a run of the same task wrote before its worker died (processJob
\* removes workDir when it returns)
FetchStart ==
  /\ fetch.pc = "idle"
  /\ fetch' = [fetch EXCEPT !.pc = "running", !.attempt = 1]
  /\ UNCHANGED <<jobVars, limiterVars, dbNow, sweep>>

\* one turn of the loop of downloadToFile: downloadOnce, then return nil, return
\* the error (not retryable, or the last attempt), or wait for the backoff.
\* log gets the Range offset sent (0 for none), the status and the bytes received
FetchAttempt(r) ==
  /\ fetch.pc = "running"
  /\ r \in Replies(Offset(fetch.file))
  /\ LET res == downloadOnce(fetch.file, r)
     IN fetch' = [pc |-> IF res.err = "" THEN "ok"
                         ELSE IF ~res.retryable \/ fetch.attempt = maxAttempts THEN "failed"
                         ELSE "backoff",
                  attempt |-> fetch.attempt,
                  ctx |-> fetch.ctx,
                  file |-> res.file,
                  log |-> Append(fetch.log, [range |-> Offset(fetch.file), code |-> r.code, got |-> r.got]),
                  err |-> res.err]
  /\ UNCHANGED <<jobVars, limiterVars, dbNow, sweep>>

\* a variant where the timer is waited for whatever ctx does
BackoffElapsesAnyway(f) == TRUE

\* the select of downloadToFile blocks on ctx.Done() and on a timer of at
\* least a second: the timer case is taken when it fires with ctx not done
BackoffElapses(f) == f.ctx = "live"

\* case <-time.After(backoff): the next attempt
FetchBackoff ==
  /\ fetch.pc = "backoff"
  /\ BackoffElapses(fetch)
  /\ fetch' = [fetch EXCEPT !.pc = "running", !.attempt = @ + 1]
  /\ UNCHANGED <<jobVars, limiterVars, dbNow, sweep>>

\* case <-ctx.Done(): return ctx.Err()
FetchCancel ==
  /\ fetch.pc = "backoff"
  /\ fetch.ctx = "done"
  /\ fetch' = [fetch EXCEPT !.pc = "failed", !.err = ErrCtx]
  /\ UNCHANGED <<jobVars, limiterVars, dbNow, sweep>>

\* the caller's ctx is cancelled, or its deadline (cfg.JobTimeout) passes,
\* while downloadToFile is in an attempt or in a backoff
FetchCtxDone ==
  /\ fetch.pc \in {"running", "backoff"}
  /\ fetch.ctx = "live"
  /\ fetch' = [fetch EXCEPT !.ctx = "done"]
  /\ UNCHANGED <<jobVars, limiterVars, dbNow, sweep>>

(* ------------------- worker: the stretches of processJob -------------- *)
(* processJob touches shared state at its status writes and at the upload. *)
(* Each stretch below runs from one such point to the next; ok is whether  *)
(* the one status write of the stretch reaches the database.               *)

\* a variant that goes on to the next stage when the write failed
statusWriteUnchecked(js, ok, jobID, status, mp3URL, next) ==
  [jobs |-> UpdateJobStatus(js, ok, jobID, status, NullString, mp3URL),
   next |-> next, err |-> "", skip |-> FALSE]

\* a status write of processJob: on an error the handler returns it as it is
statusWrite(js, ok, jobID, status, mp3URL, next) ==
  IF ok THEN [jobs |-> UpdateJobStatus(js, TRUE, jobID, status, NullString, mp3URL),
              next |-> next, err |-> "", skip |-> FALSE]
        ELSE [jobs |-> UpdateJobStatus(js, FALSE, jobID, status, NullString, mp3URL),
              next |-> "return", err |-> ErrStore, skip |-> FALSE]

\* os.MkdirAll, then UpdateJobStatus(downloading)
stageWorkspace(js, jobID, mkdirOk, ok) ==
  IF ~mkdirOk THEN recordFailure(js, ok, jobID, ErrMkdir)
  ELSE statusWrite(js, ok, jobID, StatusDownloading, NullKey, "downloading")

\* downloadWithParser, then UpdateJobStatus(transcoding)
stageDownload(js, jobID, reply, fetchOk, ok) ==
  LET err == downloadWithParser(reply, fetchOk)
  IN IF err # "" THEN recordFailure(js, ok, jobID, err)
     ELSE statusWrite(js, ok, jobID, StatusTranscoding, NullKey, "transcoding")

\* transcodeWithFFmpeg, then s3.UploadMP3, which puts the blob
stageTranscode(js, jobID, ffmpegOk, uploadOk, ok) ==
  IF ~ffmpegOk THEN recordFailure(js, ok, jobID, ErrFFmpeg)
  ELSE IF ~uploadOk THEN recordFailure(js, ok, jobID, ErrUpload)
  ELSE [jobs |-> js, next |-> "uploaded", err |-> "", skip |-> FALSE]

\* UpdateJobStatus(ready, &mp3Key), then return nil
stageReady(js, jobID, ok) ==
  statusWrite(js, ok, jobID, StatusReady, [valid |-> TRUE, key |-> ObjectKey(jobID)], "return")

\* the outcomes of the collaborators of one run of processJob
Outcomes ==
  [mkdirOk : BOOLEAN, reply : ParserReplies, fetchOk : BOOLEAN, ffmpegOk : BOOLEAN,
   uploadOk : BOOLEAN, db : [1..4 -> BOOLEAN]]


(* ------------------------- the queue and out -------------------------- *)

\* a task: the ProcessPayload (JobID, SourceURL), where its handler invocation
\* is, and how often asynq has retried it
NoTask == [job |-> 0, url |-> NoURL, pc |-> "none", retried |-> 0]
\* the fields of a job that buildJobResponse puts in the JSON body
NoBody == [status |-> "", error |-> NullString, mp3 |-> NullKey, updatedAt |-> 0]
\* the request body of a step that is no POST /jobs
NoInput == [jsonOk |-> FALSE, blank |-> FALSE, hasURL |-> FALSE, supported |-> FALSE, url |-> NoURL]
\* the Location header of an answer that is no redirect
NoLocation == [key |-> <<>>, filename |-> <<>>]
NoOut ==
  [kind |-> "none", op |-> "", code |-> 0, job |-> 0, task |-> 0, err |-> "", skip |-> FALSE,
   input |-> NoInput, body |-> NoBody, location |-> NoLocation]
\* the re-run of a task is not followed
NoOutcomes ==
  [mkdirOk |-> TRUE, reply |-> [kind |-> "", succ |-> FALSE, retcode |-> 0, video |-> "", audio |-> ""],
   fetchOk |-> TRUE, ffmpegOk |-> TRUE, uploadOk |-> TRUE, db |-> [i \in 1..4 |-> TRUE]]
NoRerun == [on |-> FALSE, phase |-> 0, o |-> NoOutcomes, before |-> NoJob]

Http(op, id, code) ==
  IF watch THEN [NoOut EXCEPT !.kind = "http", !.op = op, !.job = id, !.code = code] ELSE NoOut
\* the answer of POST /jobs to the body in
HttpCreate(in, id, code) ==
  IF watch THEN [NoOut EXCEPT !.kind = "http", !.op = "create", !.job = id, !.code = code, !.input = in]
           ELSE NoOut
\* the answer of GET /jobs/{id}
HttpGet(id, code, body) ==
  IF watch THEN [NoOut EXCEPT !.kind = "http", !.op = "get", !.job = id, !.code = code, !.body = body]
           ELSE NoOut
\* the answer of GET /jobs/{id}/download
HttpDownload(id, code, location) ==
  IF watch THEN [NoOut EXCEPT !.kind = "http", !.op = "download", !.job = id, !.code = code,
                              !.location = location]
           ELSE NoOut
Returned(t, id, err, skip) ==
  IF watch THEN [NoOut EXCEPT !.kind = "return", !.task = t, !.job = id, !.err = err, !.skip = skip]
           ELSE NoOut

\* where a handler invocation of processJob can be: in downloadWithParser, in
\* transcodeWithFFmpeg or UploadMP3, or before the write of ready
RunningPcs == {"downloading", "transcoding", "uploaded"}
\* a task the queue still holds or a worker still runs
LivePcs == RunningPcs \cup {"pending", "retry"}

HasSlot(ts) == \E t \in TaskIds : ts[t] = NoTask
FreeSlot(ts) == CHOOSE t \in TaskIds : ts[t] = NoTask /\ \A u \in TaskIds : u < t => ts[u] # NoTask

\* a variant whose payload has no SourceURL
EnqueueJobIDOnly(ts, jobID, sourceURL) ==
  [ts EXCEPT ![FreeSlot(ts)] = [job |-> jobID, url |-> NoURL, pc |-> "pending", retried |-> 0]]

\* client.Enqueue(task, asynq.MaxRetry(3), asynq.Timeout(cfg.JobTimeout))
\* of queue.NewProcessTask(queue.ProcessPayload{JobID, SourceURL})
Enqueue(ts, jobID, sourceURL) ==
  [ts EXCEPT ![FreeSlot(ts)] = [job |-> jobID, url |-> sourceURL, pc |-> "pending", retried |-> 0]]

\* asynq, on the error a handler invocation returned (or on a lost worker): nil
\* completes the task; SkipRetry or a spent budget (MaxRetry) archives it;
\* otherwise it is scheduled for a retry
Dispose(task, err, skip) ==
  IF err = "" THEN [task EXCEPT !.pc = "done"]
  ELSE IF skip \/ task.retried >= MaxRetry THEN [task EXCEPT !.pc = "archived"]
  ELSE [task EXCEPT !.pc = "retry", !.retried = @ + 1]

(* --------------------------- the rate limiter ------------------------- *)

\* the client keys (clientIP) that send requests
Keys == {"10.0.0.1", "10.0.0.2"}
\* the requests that can be inside limiter.allow at once
ReqIds == 1..MaxConcurrent

\* entries[key] == nil
NoEntry == [present |-> FALSE, count |-> 0, reset |-> 0]
\* the zero time.Time of lastCleanup
Never == -1
NoReq == [pc |-> "idle", key |-> "", path |-> "", now |-> 0]
\* kind is "pass" (handed to next without the limiter), "admitted" (handed to
\* next by the limiter) or "limited" (429); now is the time.Now() of allow, at
\* the time of the answer, prior the entry allow found for the key
NoRlOut ==
  [kind |-> "none", key |-> "", path |-> "", retryAfter |-> 0, remaining |-> 0,
   seconds |-> 0, now |-> 0, at |-> 0, prior |-> NoEntry]

\* the instants at which requests arrive and take the mutex: the start of a
\* window, half a second later, its reset time and half a second after that
Instants == {0, 1, Window, Window + 1}
\* the request paths
Paths == {"/healthz", "/jobs/1/events", "/jobs"}

\* strings.HasSuffix(s, suffix)
HasSuffix(s, suffix) ==
  Len(s) >= Len(suffix) /\ SubSeq(s, Len(s) - Len(suffix) + 1, Len(s)) = suffix

\* a variant that exempts the health endpoint only
ExemptHealthOnly(path) == path = "/healthz"

\* the paths rateLimitMiddleware hands to next without calling allow
Exempt(path) == path = "/healthz" \/ HasSuffix(path, "/events")

\* a variant that starts the new window with the budget spent
NewEntryFull(nw) == [present |-> TRUE, count |-> Limit, reset |-> nw + Window]

\* entry = &rateEntry{count: 0, reset: now.Add(rl.window)}
NewEntry(nw) == [present |-> TRUE, count |-> 0, reset |-> nw + Window]

\* a variant of the budget test that is off by one
OverLimitByOne(count) == count > Limit

\* entry.count >= rl.limit
OverLimit(count) == count >= Limit

\* a variant without the test of lastCleanup
cleanupLockedEveryCall(l, nw) ==
  [entries |-> [k \in Keys |->
                 IF l.entries[k].present /\ nw > l.entries[k].reset
                   THEN NoEntry ELSE l.entries[k]],
   lastCleanup |-> nw]

\* cleanupLocked: at most once per window, delete the entries whose reset
\* time has passed
cleanupLocked(l, nw) ==
  IF l.lastCleanup # Never /\ nw - l.lastCleanup < Window THEN l
  ELSE [entries |-> [k \in Keys |->
                      IF l.entries[k].present /\ nw > l.entries[k].reset
                        THEN NoEntry ELSE l.entries[k]],
        lastCleanup |-> nw]

\* rateLimiter.allow from rl.mu.Lock() on: nw is the time.Now() read before
\* the lock, until the time at which time.Until(entry.reset) is evaluated
allow(l, key, nw, until) ==
  IF Limit <= 0 \/ Window <= 0
    THEN [rl |-> l, allowed |-> TRUE, retryAfter |-> 0, remaining |-> -1, fresh |-> FALSE]
  ELSE
    LET found == l.entries[key]
        fresh == ~found.present \/ nw > found.reset
        entry == IF fresh THEN NewEntry(nw) ELSE found
    IN IF OverLimit(entry.count)
         THEN [rl |-> cleanupLocked([l EXCEPT !.entries[key] = entry], nw),
               allowed |-> FALSE,
               retryAfter |-> IF entry.reset - until < 0 THEN 0 ELSE entry.reset - until,
               remaining |-> 0,
               fresh |-> fresh]
         ELSE [rl |-> cleanupLocked([l EXCEPT !.entries[key] = [entry EXCEPT !.count = @ + 1]], nw),
               allowed |-> TRUE,
               retryAfter |-> 0,
               remaining |-> Limit - (entry.count + 1),
               fresh |-> fresh]

\* retryAfter.Round(time.Second).Seconds(): to the nearest second, halfway up
RoundSeconds(d) == (2 * d + TicksPerSecond) \div (2 * TicksPerSecond)

\* a variant without the floor of one second
SecondsNoFloor(d) == RoundSeconds(d)

\* the Retry-After of a 429: the rounded seconds, 1 at least
Seconds(d) == IF RoundSeconds(d) < 1 THEN 1 ELSE RoundSeconds(d)

\* limiter := &rateLimiter{limit, window, entries: make(map[string]*rateEntry)}
InitLimiter ==
  /\ clock = 0
  /\ rl = [entries |-> [k \in Keys |-> NoEntry], lastCleanup |-> Never]
  /\ reqs = [r \in ReqIds |-> NoReq]
  /\ rlOut = NoRlOut
  /\ admitted = [k \in Keys |-> 0]

\* no request is between its write of the row and its Enqueue
NoEnqueue == [create |-> FALSE, retry |-> 0]

\* the calls of cleanupJobs that can run at once
SweepIds == 1..MaxSweeps

\* cleanupJobs has not been called
NoSweep ==
  [pc |-> "idle", before |-> 0, page |-> <<>>, n |-> 0, deletedObjects |-> 0, deletedJobs |-> 0,
   err |-> FALSE, prev |-> 0, prevJobs |-> 0]

\* downloadToFile has not been called
NoFetch == [pc |-> "idle", attempt |-> 0, ctx |-> "live", file |-> NoFile, log |-> <<>>, err |-> ""]

\* the database clock is not followed, and neither cleanupJobs nor
\* downloadToFile is called
InitExt ==
  /\ dbNow = 0
  /\ sweep = [s \in SweepIds |-> NoSweep]
  /\ fetch = NoFetch

\* no stream was opened
NoStream == [pc |-> "none", id |-> 0, status |-> "", lastUpdated |-> 0, events |-> <<>>]

Init ==
  /\ stream = NoStream
  /\ hist = <<>>
  /\ InitLimiter
  /\ InitExt
  /\ jobs = [id \in JobIds |-> NoJob]
  /\ created = 0
  /\ tasks = [t \in TaskIds |-> NoTask]
  /\ blobs = {}
  /\ inflight = [id \in JobIds |-> 0]
  /\ retrying = [id \in JobIds |-> NoURL]
  /\ enqueuing = [id \in JobIds |-> NoEnqueue]
  /\ out = NoOut
  /\ watch = FALSE
  /\ rerun = NoRerun

(* ----------------------------- API handlers --------------------------- *)

\* a variant that returns the row as it was inserted
GetJobAsInserted(js, id) ==
  [js[id] EXCEPT !.status = StatusQueued, !.error = NullString, !.mp3 = NullKey]

\* the Job that GetJob scans from the row
GetJob(js, id) == js[id]

\* t.In(time.Local).Format(time.RFC3339): the time in whole seconds
FormatRFC3339(t) == t \div TicksPerSecond

\* what a reader of the row sees of it: status, error, mp3_url and updated_at
\* as buildJobResponse shows it; at is the UpdatedAt of the Job itself
Snap(j) ==
  [kind |-> "snapshot", status |-> j.status, error |-> j.error, mp3 |-> j.mp3,
   updatedAt |-> FormatRFC3339(j.updatedAt), at |-> j.updatedAt]

\* a step that may have written the streamed row: the row's new state is one
\* more state it has held
Recorded ==
  hist' = IF stream.pc = "open" /\ jobs'[stream.id] # jobs[stream.id]
            THEN Append(hist, Snap(jobs'[stream.id]))
            ELSE hist

\* URLs that clients submit
URLDouyin == [host |-> "v.douyin.com", path |-> "/abc"]
URLBilibili == [host |-> "b23.tv", path |-> "/xyz"]
URLOther == [host |-> "example.com", path |-> "/v"]

\* platform.Detect: the platform of the URL's host, and whether it is known
Detect(u) ==
  IF Contains(u.host, "douyin") \/ Contains(u.host, "iesdouyin") THEN [name |-> "douyin", ok |-> TRUE]
  ELSE IF Contains(u.host, "kuaishou") \/ Contains(u.host, "kwai") THEN [name |-> "kuaishou", ok |-> TRUE]
  ELSE IF Contains(u.host, "bilibili") \/ Contains(u.host, "b23.tv") THEN [name |-> "bilibili", ok |-> TRUE]
  ELSE IF Contains(u.host, "xiaohongshu") \/ Contains(u.host, "xhslink") THEN [name |-> "xiaohongshu", ok |-> TRUE]
  ELSE IF Contains(u.host, "haokan.baidu.com") \/ Contains(u.host, "haokan.hao123.com")
    THEN [name |-> "haokan", ok |-> TRUE]
  ELSE IF Contains(u.host, "weishi.qq.com") \/ Contains(u.host, "isee.weishi") THEN [name |-> "weishi", ok |-> TRUE]
  ELSE IF Contains(u.host, "pearvideo") THEN [name |-> "pearvideo", ok |-> TRUE]
  ELSE IF Contains(u.host, "pipigx") THEN [name |-> "pipigaoxiao", ok |-> TRUE]
  ELSE [name |-> "", ok |-> FALSE]

\* the bodies POST /jobs can receive: whether the JSON decodes, whether url is
\* blank, the URL extractURL finds in it (NoURL when it finds none), and from
\* these whether it finds one and whether platform.Detect knows its host
CreateInput(jsonOk, blank, url) ==
  [jsonOk |-> jsonOk, blank |-> blank, hasURL |-> url # NoURL, supported |-> Detect(url).ok,
   url |-> url]
CreateInputs ==
  {CreateInput(TRUE, FALSE, URLDouyin), CreateInput(FALSE, FALSE, NoURL),
   CreateInput(TRUE, TRUE, NoURL), CreateInput(TRUE, FALSE, NoURL),
   CreateInput(TRUE, FALSE, URLOther)}

\* a variant of the 400 checks without the platform check
CreateValidAnyPlatform(in) == in.jsonOk /\ ~in.blank /\ in.hasURL

\* the 400 checks of POST /jobs
CreateValid(in) == in.jsonOk /\ ~in.blank /\ in.hasURL /\ in.supported

\* a request for job id returns: retrying forgets the SourceURL once no request
\* for the job is left in its handler
Released(id) ==
  retrying' = [retrying EXCEPT ![id] =
                 IF inflight'[id] = 0 /\ enqueuing'[id] = NoEnqueue THEN NoURL ELSE @]

\* the handler of POST /jobs up to st.CreateJob: the 400 checks, then the INSERT
\* of the row of a new ID (500 when it fails).  The request then holds jobID
\* and normalizedURL until it has called Enqueue
PostJobs(in, dbOk) ==
     IF ~CreateValid(in)
       THEN /\ out' = HttpCreate(in, 0, 400)
            /\ UNCHANGED <<jobs, created, retrying, enqueuing>>
     ELSE IF ~dbOk
       THEN /\ out' = HttpCreate(in, 0, 500)
            /\ UNCHANGED <<jobs, created, retrying, enqueuing>>
     ELSE /\ created < MaxJobs
          /\ created' = created + 1
          /\ jobs' = [jobs EXCEPT ![created + 1] =
                         NewJob(created + 1, in.url, Detect(in.url).name, Stamp(created))]
          /\ enqueuing' = [enqueuing EXCEPT ![created + 1].create = TRUE]
          /\ retrying' = [retrying EXCEPT ![created + 1] = in.url]
          /\ out' = NoOut

\* POST /jobs, reached without the rate limit middleware in the way
CreateJobHandler(in, dbOk) ==
  /\ UNCHANGED <<tasks, blobs, inflight, watch, rerun, stream, limiterVars, extVars>>
  /\ PostJobs(in, dbOk)
  /\ Recorded

\* POST /jobs from queue.NewProcessTask on: client.Enqueue, then 202, or 500
\* when the broker cannot be reached (the row stays as it was inserted)
CreateEnqueue(id, enqOk) ==
  /\ enqueuing[id].create
  /\ enqueuing' = [enqueuing EXCEPT ![id].create = FALSE]
  /\ UNCHANGED <<jobs, created, blobs, inflight, watch, rerun, stream, hist, limiterVars, extVars>>
  /\ Released(id)
  /\ IF enqOk
       THEN /\ HasSlot(tasks)
            /\ tasks' = Enqueue(tasks, id, retrying[id])
            /\ out' = HttpCreate(CreateInput(TRUE, FALSE, retrying[id]), id, 202)
       ELSE /\ tasks' = tasks
            /\ out' = HttpCreate(CreateInput(TRUE, FALSE, retrying[id]), id, 500)

\* a variant of the status check that also lets a ready job through
RetryableOrReady(status) ==
  status = StatusFailed \/ status = StatusExpired \/ status = StatusReady

\* the status check of POST /jobs/{id}/retry
Retryable(status) == status = StatusFailed \/ status = StatusExpired

\* the handler of POST /jobs/{id}/retry up to its status check: GetJob (404 on
\* sql.ErrNoRows, 500 on another error), then 409 unless the status is failed
\* or expired.  The request then holds the Job j it read
PostRetry(id, dbOk) ==
     IF ~dbOk
       THEN /\ out' = Http("retry", id, 500)
            /\ UNCHANGED <<inflight, retrying>>
     ELSE IF jobs[id] = NoJob
       THEN /\ out' = Http("retry", id, 404)
            /\ UNCHANGED <<inflight, retrying>>
     ELSE IF ~Retryable(jobs[id].status)
       THEN /\ out' = Http("retry", id, 409)
            /\ UNCHANGED <<inflight, retrying>>
     ELSE /\ inflight[id] + enqueuing[id].retry < MaxInflight
          /\ inflight' = [inflight EXCEPT ![id] = @ + 1]
          /\ retrying' = [retrying EXCEPT ![id] = GetJob(jobs, id).sourceURL]
          /\ out' = NoOut

\* POST /jobs/{id}/retry, reached without the rate limit middleware in the way
RetryGet(id, dbOk) ==
  /\ UNCHANGED <<jobs, created, tasks, blobs, enqueuing, watch, rerun, stream, hist, limiterVars, extVars>>
  /\ PostRetry(id, dbOk)

\* POST /jobs/{id}/retry: st.UpdateJobStatus(j.ID, queued, nil, nil), 500 when
\* it fails
RetryUpdate(id, dbOk) ==
  /\ inflight[id] > 0
  /\ inflight' = [inflight EXCEPT ![id] = @ - 1]
  /\ UNCHANGED <<created, tasks, blobs, watch, rerun, stream, limiterVars, extVars>>
  /\ IF ~dbOk
       THEN /\ out' = Http("retry", id, 500)
            /\ UNCHANGED <<jobs, enqueuing>>
       ELSE /\ jobs' = UpdateJobStatus(jobs, TRUE, id, StatusQueued, NullString, NullKey)
            /\ enqueuing' = [enqueuing EXCEPT ![id].retry = @ + 1]
            /\ out' = NoOut
  /\ Released(id)
  /\ Recorded

\* POST /jobs/{id}/retry from queue.NewProcessTask on: client.Enqueue of the
\* task of j.ID and j.SourceURL, then 202, or 500 when the broker cannot be
\* reached
RetryEnqueue(id, enqOk) ==
  /\ enqueuing[id].retry > 0
  /\ enqueuing' = [enqueuing EXCEPT ![id].retry = @ - 1]
  /\ UNCHANGED <<jobs, created, blobs, inflight, watch, rerun, stream, hist, limiterVars, extVars>>
  /\ Released(id)
  /\ IF enqOk
       THEN /\ HasSlot(tasks)
            /\ tasks' = Enqueue(tasks, id, retrying[id])
            /\ out' = Http("retry", id, 202)
       ELSE /\ tasks' = tasks
            /\ out' = Http("retry", id, 500)

\* mp3URLForJob: nil for a NULL mp3_url, else the presigned URL of the key (the
\* URL is the key here); signOk is whether PresignMP3 succeeded
mp3URLForJob(j, signOk) ==
  IF ~j.mp3.valid THEN [err |-> FALSE, url |-> NullKey]
  ELSE IF ~signOk THEN [err |-> TRUE, url |-> NullKey]
  ELSE [err |-> FALSE, url |-> j.mp3]

\* buildJobResponse: Status, Error (nullStringPtr), MP3URL and UpdatedAt of the body
buildJobResponse(j, signOk) ==
  LET u == mp3URLForJob(j, signOk)
  IN [err |-> u.err,
      body |-> IF u.err THEN NoBody ELSE [status |-> j.status, error |-> j.error, mp3 |-> u.url,
                                            updatedAt |-> FormatRFC3339(j.updatedAt)]]

\* GET /jobs/{id}
GetJobHandler(id, dbOk, signOk) ==
  /\ UNCHANGED <<jobs, created, tasks, blobs, inflight, retrying, enqueuing, watch, rerun, stream, hist, limiterVars, extVars>>
  /\ IF ~dbOk THEN out' = HttpGet(id, 500, NoBody)
     ELSE IF jobs[id] = NoJob THEN out' = HttpGet(id, 404, NoBody)
     ELSE LET resp == buildJobResponse(jobs[id], signOk)
          IN IF resp.err THEN out' = HttpGet(id, 500, NoBody)
             ELSE out' = HttpGet(id, 200, resp.body)

\* mp3DownloadURLForJob: nil for a NULL mp3_url, else the URL that
\* PresignMP3Download signs for the key and the filename video2mp3-<id>.mp3
\* (the URL is the pair here); signOk is whether the signing succeeded
mp3DownloadURLForJob(j, signOk) ==
  IF ~j.mp3.valid THEN [err |-> FALSE, found |-> FALSE, url |-> NoLocation]
  ELSE IF ~signOk THEN [err |-> TRUE, found |-> FALSE, url |-> NoLocation]
  ELSE [err |-> FALSE, found |-> TRUE, url |-> [key |-> j.mp3.key, filename |-> <<"video2mp3", j.id>>]]

\* a variant of the status check that lets a job through once it is downloaded
DownloadableOrTranscoding(status) == status = StatusReady \/ status = StatusTranscoding

\* the status check of GET /jobs/{id}/download
Downloadable(status) == status = StatusReady

\* GET /jobs/{id}/download
DownloadHandler(id, dbOk, signOk) ==
  /\ UNCHANGED <<jobs, created, tasks, blobs, inflight, retrying, enqueuing, watch, rerun, stream, hist, limiterVars, extVars>>
  /\ IF ~dbOk THEN out' = HttpDownload(id, 500, NoLocation)
     ELSE IF GetJob(jobs, id) = NoJob THEN out' = HttpDownload(id, 404, NoLocation)
     ELSE IF ~Downloadable(GetJob(jobs, id).status) THEN out' = HttpDownload(id, 409, NoLocation)
     ELSE LET u == mp3DownloadURLForJob(GetJob(jobs, id), signOk)
          IN IF u.err THEN out' = HttpDownload(id, 500, NoLocation)
             ELSE IF ~u.found THEN out' = HttpDownload(id, 404, NoLocation)
             ELSE out' = HttpDownload(id, 302, u.url)

\* objectKeyFromJob: the key to delete for a row (<<>> when it has none)
objectKeyFromJob(j) == IF ~j.mp3.valid THEN <<>> ELSE j.mp3.key

(* ------------------- cleanupJobs, one call step by step --------------- *)

\* the IDs of the table the sweep is followed on
RowIds == 1..MaxRows

\* the status writes of the program: downloading, transcoding, ready with the
\* key of the upload and failed with a message by processJob, queued by the
\* retry handler
StatusWrites(id) ==
  {[status |-> StatusDownloading, error |-> NullString, mp3 |-> NullKey],
   [status |-> StatusTranscoding, error |-> NullString, mp3 |-> NullKey],
   [status |-> StatusFailed, error |-> [valid |-> TRUE, str |-> ErrFFmpeg], mp3 |-> NullKey],
   [status |-> StatusReady, error |-> NullString, mp3 |-> [valid |-> TRUE, key |-> ObjectKey(id)]],
   [status |-> StatusQueued, error |-> NullString, mp3 |-> NullKey]}

\* cleanupJobs returns: its results are kept where out is recorded
SweepReturn(rec) == IF watch THEN [rec EXCEPT !.pc = "done", !.page = <<>>] ELSE NoSweep

\* a call that has returned without an error, the one with the latest cutoff
\* (0 when there is none)
LastSweep ==
  LET ended == {s \in SweepIds : sweep[s].pc = "done" /\ ~sweep[s].err}
  IN IF ended = {} THEN 0
     ELSE CHOOSE s \in ended : \A u \in ended : sweep[u].before <= sweep[s].before

\* cleanupJobs(ctx, st, s3, cfg, before) is called, by POST /admin/cleanup or
\* by the cleanup ticker, in the lowest call slot that is free: before is
\* time.Now().AddDate(0, 0, -retentionDays) with retentionDays > 0, a time not
\* later than NOW() of the next insertion.  prev and prevJobs are the cutoff
\* and the deletedJobs of a call that had returned without an error
SweepStart(s, before) ==
  /\ sweep[s].pc \in {"idle", "done"}
  /\ \A u \in SweepIds : u < s => sweep[u].pc \notin {"idle", "done"}
  /\ before <= Stamp(created)
  /\ sweep' = [sweep EXCEPT ![s] =
                 [pc |-> "list", before |-> before, page |-> <<>>, n |-> 0,
                  deletedObjects |-> 0, deletedJobs |-> 0, err |-> FALSE,
                  prev |-> IF LastSweep = 0 THEN 0 ELSE sweep[LastSweep].before,
                  prevJobs |-> IF LastSweep = 0 THEN 0 ELSE sweep[LastSweep].deletedJobs]]
  /\ UNCHANGED <<jobVars, limiterVars, dbNow, fetch>>

\* the items of a result of ListJobsBefore that have an object key, in order
Keyed(js, items) ==
  SelectSeq([i \in 1..Len(items) |-> [id |-> items[i], key |-> objectKeyFromJob(js[items[i]])]],
            LAMBDA e : e.key # <<>>)

\* where cleanupJobs goes on once the items of a result of n rows are gone
\* through: an empty or a short result leaves the loop, a full one lists again
AfterItems(n) == IF n < PageSize THEN "delete" ELSE "list"

\* items, err := st.ListJobsBefore(ctx, before, 200): an error returns
\* (0, deletedObjects, err).  The range over items calls nothing for an item
\* without a key, so the call is at the DeleteObject of the first item that has
\* one, or past the items
SweepList(s, dbOk) ==
  /\ sweep[s].pc = "list"
  /\ IF ~dbOk
       THEN sweep' = [sweep EXCEPT ![s] = SweepReturn([@ EXCEPT !.err = TRUE])]
       ELSE \E items \in ListJobsBefore(jobs, sweep[s].before, PageSize) :
              sweep' = [sweep EXCEPT ![s] =
                          [@ EXCEPT !.page = Keyed(jobs, items),
                                    !.n = Len(items),
                                    !.pc = IF Keyed(jobs, items) # <<>> THEN "objects"
                                           ELSE AfterItems(Len(items))]]
  /\ UNCHANGED <<jobVars, limiterVars, dbNow, fetch>>

\* a variant that counts the deletes that failed too
DeleteObjectCountedAll(ok) == 1

\* if err := s3.DeleteObject(ctx, key); err == nil { deletedObjects++ }
DeleteObjectCounted(ok) == IF ok THEN 1 ELSE 0

\* s3.DeleteObject of the key of the next item that has one; ok is whether it
\* returns nil.  After the last item the loop is left or lists again
SweepObject(s, ok) ==
  /\ sweep[s].pc = "objects"
  /\ LET e == Head(sweep[s].page)
         rest == Tail(sweep[s].page)
     IN /\ sweep[s].deletedObjects + DeleteObjectCounted(ok) <= MaxTally
        /\ blobs' = IF ok THEN blobs \ {e.key} ELSE blobs
        /\ sweep' = [sweep EXCEPT ![s] =
                       [@ EXCEPT !.deletedObjects = @ + DeleteObjectCounted(ok),
                                 !.page = rest,
                                 !.pc = IF rest # <<>> THEN "objects" ELSE AfterItems(sweep[s].n)]]
  /\ UNCHANGED <<jobs, created, tasks, inflight, retrying, enqueuing, out, watch, rerun, stream, hist,
                 limiterVars, dbNow, fetch>>

\* deletedJobs, err := st.DeleteJobsBefore(ctx, before), and the return
SweepDelete(s, dbOk) ==
  /\ sweep[s].pc = "delete"
  /\ IF dbOk
       THEN /\ jobs' = DeleteJobsBefore(jobs, sweep[s].before)
            /\ sweep' = [sweep EXCEPT ![s] =
                           SweepReturn([@ EXCEPT !.deletedJobs = RowsAffected(jobs, sweep[s].before)])]
       ELSE /\ jobs' = jobs
            /\ sweep' = [sweep EXCEPT ![s] = SweepReturn([@ EXCEPT !.err = TRUE])]
  /\ UNCHANGED <<created, tasks, blobs, inflight, retrying, enqueuing, out, watch, rerun, stream,
                 limiterVars, dbNow, fetch>>
  /\ Recorded

\* time passes: the database clock shows t
DbTick(t) ==
  /\ t > dbNow
  /\ dbNow' = t
  /\ UNCHANGED <<jobVars, limiterVars, sweep, fetch>>

\* st.CreateJob of POST /jobs: the row of a new ID is inserted at NOW()
StoreInsert(sourceURL) ==
  /\ created < MaxRows
  /\ created' = created + 1
  /\ jobs' = [jobs EXCEPT ![created + 1] =
                 NewJob(created + 1, sourceURL, Detect(sourceURL).name, Stamp(created))]
  /\ UNCHANGED <<tasks, blobs, inflight, retrying, enqueuing, out, watch, rerun, stream, limiterVars, extVars>>
  /\ Recorded

\* st.UpdateJobStatus of a worker that runs the task of job id, or of the
\* retry handler
StoreWrite(id, u) ==
  /\ jobs' = UpdateJobStatus(jobs, TRUE, id, u.status, u.error, u.mp3)
  /\ UNCHANGED <<created, tasks, blobs, inflight, retrying, enqueuing, out, watch, rerun, stream, limiterVars, extVars>>
  /\ Recorded

(* ------------------------------- worker ------------------------------- *)

\* task t after a stretch of processJob with result r: still running, or
\* returned to asynq
Advance(t, r) ==
  [tasks EXCEPT ![t] = IF r.next = "return" THEN Dispose(@, r.err, r.skip)
                                            ELSE [@ EXCEPT !.pc = r.next]]

\* what the handler invocation of task t hands back to asynq, once it returns
OutOf(t, r) ==
  IF r.next = "return" THEN Returned(t, tasks[t].job, r.err, r.skip) ELSE NoOut

\* where the runs of a task are followed: one more handler invocation has
\* returned, and before is the row as the first one left it
Noted(t, r) ==
  rerun' = IF ~rerun.on \/ r.next # "return" THEN rerun
           ELSE [rerun EXCEPT !.phase = @ + 1,
                              !.before = IF rerun.phase = 0 THEN r.jobs[tasks[t].job] ELSE @]

\* asynq hands a pending task, or one whose retry delay has passed, to the
\* handler; processJob creates the workspace and writes downloading
ProcessStart(t, mkdirOk, ok) ==
  /\ tasks[t].pc \in {"pending", "retry"}
  /\ LET r == stageWorkspace(jobs, tasks[t].job, mkdirOk, ok)
     IN /\ jobs' = r.jobs
        /\ tasks' = Advance(t, r)
        /\ out' = OutOf(t, r)
        /\ Noted(t, r)
  /\ UNCHANGED <<created, blobs, inflight, retrying, enqueuing, watch, stream, limiterVars, extVars>>
  /\ Recorded

\* processJob: downloadWithParser ends; transcoding is written
ProcessDownload(t, reply, fetchOk, ok) ==
  /\ tasks[t].pc = "downloading"
  /\ LET r == stageDownload(jobs, tasks[t].job, reply, fetchOk, ok)
     IN /\ jobs' = r.jobs
        /\ tasks' = Advance(t, r)
        /\ out' = OutOf(t, r)
        /\ Noted(t, r)
  /\ UNCHANGED <<created, blobs, inflight, retrying, enqueuing, watch, stream, limiterVars, extVars>>
  /\ Recorded

\* processJob: transcodeWithFFmpeg and UploadMP3 end
ProcessTranscode(t, ffmpegOk, uploadOk, ok) ==
  /\ tasks[t].pc = "transcoding"
  /\ LET r == stageTranscode(jobs, tasks[t].job, ffmpegOk, uploadOk, ok)
     IN /\ jobs' = r.jobs
        /\ tasks' = Advance(t, r)
        /\ out' = OutOf(t, r)
        /\ blobs' = IF r.next = "uploaded" THEN blobs \cup {ObjectKey(tasks[t].job)} ELSE blobs
        /\ Noted(t, r)
  /\ UNCHANGED <<created, inflight, retrying, enqueuing, watch, stream, limiterVars, extVars>>
  /\ Recorded

\* processJob: ready is written and the handler returns
ProcessReady(t, ok) ==
  /\ tasks[t].pc = "uploaded"
  /\ LET r == stageReady(jobs, tasks[t].job, ok)
     IN /\ jobs' = r.jobs
        /\ tasks' = Advance(t, r)
        /\ out' = OutOf(t, r)
        /\ Noted(t, r)
  /\ UNCHANGED <<created, blobs, inflight, retrying, enqueuing, watch, stream, limiterVars, extVars>>
  /\ Recorded

\* the deadline of ctx (asynq.Timeout(cfg.JobTimeout)) passes during a call
\* that takes ctx: the call fails with ctx.Err().  A stage hands that error to
\* recordFailure, whose write runs under the same ctx, which is done; the
\* write of ready returns it
Timeout(t) ==
  /\ tasks[t].pc \in RunningPcs
  /\ LET r == IF tasks[t].pc = "uploaded"
                THEN [stageReady(jobs, tasks[t].job, FALSE) EXCEPT !.err = ErrCtx]
                ELSE recordFailure(jobs, FALSE, tasks[t].job, ErrCtx)
     IN /\ jobs' = r.jobs
        /\ tasks' = Advance(t, r)
        /\ out' = OutOf(t, r)
        /\ Noted(t, r)
  /\ UNCHANGED <<created, blobs, inflight, retrying, enqueuing, watch, stream, limiterVars, extVars>>
  /\ Recorded

\* the worker process dies while it runs task t; asynq recovers the task once
\* its lease has expired
Crash(t) ==
  /\ tasks[t].pc \in RunningPcs
  /\ tasks' = [tasks EXCEPT ![t] = Dispose(@, "lease expired", FALSE)]
  /\ out' = NoOut
  /\ UNCHANGED <<jobs, created, blobs, inflight, retrying, enqueuing, watch, rerun, stream, hist, limiterVars, extVars>>

\* at-least-once delivery: the broker delivers a task a second time, while its
\* first delivery is still running or after it completed
DuplicateDelivery(t) ==
  /\ tasks[t].pc \in RunningPcs \cup {"done"}
  /\ HasSlot(tasks)
  /\ tasks' = [tasks EXCEPT ![FreeSlot(tasks)] =
       [tasks[t] EXCEPT !.pc = "pending"]]
  /\ out' = NoOut
  /\ UNCHANGED <<jobs, created, blobs, inflight, retrying, enqueuing, watch, rerun, stream, hist, limiterVars, extVars>>

(* ------------------------- the status stream -------------------------- *)

\* a variant of the end test that ends the stream on ready only
streamEndsOnReady(status) == status = StatusReady

\* the statuses at which streamJobEvents returns after it wrote the snapshot
streamEnds(status) ==
  status = StatusReady \/ status = StatusFailed \/ status = StatusExpired

\* the snapshot written for the Job j: the body of buildJobResponse; at is
\* the UpdatedAt of j, which the payload does not carry
Snapshot(j, body) ==
  [kind |-> "snapshot", status |-> body.status, error |-> body.error, mp3 |-> body.mp3,
   updatedAt |-> body.updatedAt, at |-> j.updatedAt]

\* the comment line ": keepalive"
Keepalive ==
  [kind |-> "keepalive", status |-> "", error |-> NullString, mp3 |-> NullKey, updatedAt |-> 0, at |-> 0]

\* streamJobEvents up to its loop: GetJob (404 or 500 on an error), the first
\* snapshot (500 when signing fails), and the return on a terminal status
StreamOpen(id, dbOk, signOk) ==
  /\ stream.pc = "none"
  /\ LET j == GetJob(jobs, id)
         resp == buildJobResponse(j, signOk)
     IN IF ~dbOk \/ j = NoJob \/ resp.err
          THEN UNCHANGED <<stream, hist>>
          ELSE /\ stream' = [pc |-> IF streamEnds(j.status) THEN "closed" ELSE "open",
                              id |-> id,
                              status |-> j.status,
                              lastUpdated |-> j.updatedAt,
                              events |-> <<Snapshot(j, resp.body)>>]
               /\ hist' = <<Snap(j)>>
  /\ UNCHANGED <<jobs, created, tasks, blobs, inflight, retrying, enqueuing, out, watch, rerun, limiterVars, extVars>>

\* a variant that takes every polled row for a changed one
UnchangedNever(next, st) == FALSE

\* if !next.UpdatedAt.After(lastUpdated) && next.Status == j.Status { continue }
Unchanged(next, st) == ~(next.updatedAt > st.lastUpdated) /\ next.status = st.status

\* case <-ticker.C: GetJob; a missing row ends the stream, another error and
\* an unchanged row are skipped; else j and lastUpdated are replaced, the
\* snapshot is written unless signing fails, and a terminal status ends the
\* stream
StreamPoll(dbOk, signOk) ==
  /\ stream.pc = "open"
  /\ LET next == GetJob(jobs, stream.id)
         resp == buildJobResponse(next, signOk)
         seen == [stream EXCEPT !.lastUpdated = next.updatedAt, !.status = next.status]
     IN IF ~dbOk THEN stream' = stream
        ELSE IF next = NoJob THEN stream' = [stream EXCEPT !.pc = "closed"]
        ELSE IF Unchanged(next, stream) THEN stream' = stream
        ELSE IF resp.err THEN stream' = seen
        ELSE stream' = [seen EXCEPT !.events = Append(@, Snapshot(next, resp.body)),
                                    !.pc = IF streamEnds(next.status) THEN "closed" ELSE "open"]
  /\ UNCHANGED <<jobs, created, tasks, blobs, inflight, retrying, enqueuing, out, watch, rerun, hist, limiterVars, extVars>>

\* case <-keepalive.C
StreamKeepalive ==
  /\ stream.pc = "open"
  /\ Cardinality({i \in 1..Len(stream.events) : stream.events[i].kind = "keepalive"}) < MaxKeepalives
  /\ stream' = [stream EXCEPT !.events = Append(@, Keepalive)]
  /\ UNCHANGED <<jobs, created, tasks, blobs, inflight, retrying, enqueuing, out, watch, rerun, hist, limiterVars, extVars>>

\* case <-r.Context().Done(): the observer disconnected
StreamDisconnect ==
  /\ stream.pc = "open"
  /\ stream' = [stream EXCEPT !.pc = "closed"]
  /\ UNCHANGED <<jobs, created, tasks, blobs, inflight, retrying, enqueuing, out, watch, rerun, hist, limiterVars, extVars>>

(* ---------------------- the rate limit middleware --------------------- *)

\* time passes
Tick(t) ==
  /\ t > clock
  /\ clock' = t
  /\ rlOut' = NoRlOut
  /\ UNCHANGED <<rl, reqs, admitted, jobVars, extVars>>

\* a request from the client key arrives at rateLimitMiddleware: an exempt
\* path is handed to next; any other request calls limiter.allow, which reads
\* time.Now() and then waits for the mutex
Request(path, key) ==
  /\ \E r \in ReqIds : reqs[r] = NoReq
  /\ LET r == CHOOSE s \in ReqIds : reqs[s] = NoReq /\ \A u \in ReqIds : u < s => reqs[u] # NoReq
     IN IF Exempt(path)
          THEN /\ rlOut' = [NoRlOut EXCEPT !.kind = "pass", !.key = key, !.path = path, !.at = clock]
               /\ reqs' = reqs
          ELSE /\ rlOut' = NoRlOut
               /\ reqs' = [reqs EXCEPT ![r] = [pc |-> "read", key |-> key, path |-> path, now |-> clock]]
  /\ UNCHANGED <<clock, rl, admitted, jobVars, extVars>>

\* request r holds the mutex: the rest of allow, and what the middleware
\* does with its result (429 with Retry-After, or next.ServeHTTP)
AllowAnswer(r) ==
  /\ reqs[r].pc = "read"
  /\ LET q == reqs[r]
         a == allow(rl, q.key, q.now, clock)
     IN /\ rl' = a.rl
        /\ admitted' = [admitted EXCEPT ![q.key] =
                          (IF a.fresh THEN 0 ELSE @) + (IF a.allowed THEN 1 ELSE 0)]
        /\ rlOut' = [kind |-> IF a.allowed THEN "admitted" ELSE "limited",
                     key |-> q.key,
                     path |-> q.path,
                     retryAfter |-> a.retryAfter,
                     remaining |-> a.remaining,
                     seconds |-> IF a.allowed THEN 0 ELSE Seconds(a.retryAfter),
                     now |-> q.now,
                     at |-> clock,
                     prior |-> rl.entries[q.key]]

\* the limiter alone: what next does with an admitted request is left out
AllowLocked(r) ==
  /\ AllowAnswer(r)
  /\ reqs' = [reqs EXCEPT ![r] = NoReq]
  /\ UNCHANGED <<clock, jobVars, extVars>>

\* whether allow admits request r
Admits(r) == allow(rl, reqs[r].key, reqs[r].now, clock).allowed

\* the request paths of the API that go through the limiter
PathJobs == "/jobs"
PathRetry == "/jobs/1/retry"

\* rateLimitMiddleware around the handlers: allow, then the answer 429, or
\* next.ServeHTTP, which has not reached a store call yet.  next is
\* authMiddleware(cfg.APIToken, mux), which is mux itself for the blank
\* API_TOKEN of the default configuration
rateLimitMiddleware(r) ==
  /\ AllowAnswer(r)
  /\ IF Admits(r)
       THEN /\ reqs' = [reqs EXCEPT ![r].pc = "next"]
            /\ out' = NoOut
       ELSE /\ reqs' = [reqs EXCEPT ![r] = NoReq]
            /\ out' = IF reqs[r].path = PathJobs THEN HttpCreate(NoInput, 0, 429)
                                                  ELSE Http("retry", 1, 429)
  /\ UNCHANGED <<clock, jobs, created, tasks, blobs, inflight, retrying, enqueuing, watch, rerun,
                 stream, hist, extVars>>

\* the mux runs the handler of POST /jobs for an admitted request, up to
\* st.CreateJob
ServeCreate(r, in, dbOk) ==
  /\ reqs[r].pc = "next" /\ reqs[r].path = PathJobs
  /\ reqs' = [reqs EXCEPT ![r] = NoReq]
  /\ PostJobs(in, dbOk)
  /\ UNCHANGED <<clock, rl, rlOut, admitted, tasks, blobs, inflight, watch, rerun, stream, extVars>>
  /\ Recorded

\* the same for a POST /jobs/{id}/retry, up to the handler's status check
ServeRetry(r, id, dbOk) ==
  /\ reqs[r].pc = "next" /\ reqs[r].path = PathRetry /\ id = 1
  /\ reqs' = [reqs EXCEPT ![r] = NoReq]
  /\ PostRetry(id, dbOk)
  /\ UNCHANGED <<clock, rl, rlOut, admitted, jobs, created, tasks, blobs, enqueuing, watch, rerun,
                 stream, hist, extVars>>

(* --------------------------- specifications --------------------------- *)

\* a specification follows the rows until the updated_at of one has reached
\* MaxStamp, and the row of an open stream until it has held MaxHist states
\* since the stream was opened
Followed ==
  /\ Len(hist) < MaxHist
  /\ \A id \in DOMAIN jobs : jobs[id].updatedAt < MaxStamp

\* the requests to the API, without the rate limit middleware in the way
ApiStep ==
  \/ \E in \in CreateInputs, dbOk \in BOOLEAN : Followed /\ CreateJobHandler(in, dbOk)
  \/ \E id \in JobIds, enqOk \in BOOLEAN : Followed /\ CreateEnqueue(id, enqOk)
  \/ \E id \in JobIds, dbOk \in BOOLEAN : Followed /\ RetryGet(id, dbOk)
  \/ \E id \in JobIds, dbOk \in BOOLEAN : Followed /\ RetryUpdate(id, dbOk)
  \/ \E id \in JobIds, enqOk \in BOOLEAN : Followed /\ RetryEnqueue(id, enqOk)
  \/ \E id \in JobIds, dbOk \in BOOLEAN, signOk \in BOOLEAN : Followed /\ GetJobHandler(id, dbOk, signOk)

\* a POST /jobs of a supported URL
CreateStep ==
  \/ \E dbOk \in BOOLEAN : Followed /\ CreateJobHandler(CreateInput(TRUE, FALSE, URLDouyin), dbOk)
  \/ \E id \in JobIds, enqOk \in BOOLEAN : Followed /\ CreateEnqueue(id, enqOk)

\* the cutoffs of the calls of cleanupJobs
Cutoffs == 1..MaxAge

\* one call of cleanupJobs at a time
SweepCall ==
  \/ \E before \in Cutoffs : SweepStart(1, before)
  \/ \E dbOk \in BOOLEAN : SweepList(1, dbOk)
  \/ \E ok \in BOOLEAN : SweepObject(1, ok)
  \/ \E dbOk \in BOOLEAN : SweepDelete(1, dbOk)

\* the same call while the rows are followed
SweepStep ==
  \/ \E before \in Cutoffs : Followed /\ SweepStart(1, before)
  \/ \E dbOk \in BOOLEAN : Followed /\ SweepList(1, dbOk)
  \/ \E ok \in BOOLEAN : Followed /\ SweepObject(1, ok)
  \/ \E dbOk \in BOOLEAN : Followed /\ SweepDelete(1, dbOk)

\* the handler invocations of the worker
Work ==
  \/ \E t \in TaskIds, mkdirOk \in BOOLEAN, ok \in BOOLEAN : ProcessStart(t, mkdirOk, ok)
  \/ \E t \in TaskIds, reply \in ParserReplies, fetchOk \in BOOLEAN, ok \in BOOLEAN :
        ProcessDownload(t, reply, fetchOk, ok)
  \/ \E t \in TaskIds, ffmpegOk \in BOOLEAN, uploadOk \in BOOLEAN, ok \in BOOLEAN :
        ProcessTranscode(t, ffmpegOk, uploadOk, ok)
  \/ \E t \in TaskIds, ok \in BOOLEAN : ProcessReady(t, ok)

\* the same invocations while the rows are followed
WorkerStep ==
  \/ \E t \in TaskIds, mkdirOk \in BOOLEAN, ok \in BOOLEAN : Followed /\ ProcessStart(t, mkdirOk, ok)
  \/ \E t \in TaskIds, reply \in ParserReplies, fetchOk \in BOOLEAN, ok \in BOOLEAN :
        Followed /\ ProcessDownload(t, reply, fetchOk, ok)
  \/ \E t \in TaskIds, ffmpegOk \in BOOLEAN, uploadOk \in BOOLEAN, ok \in BOOLEAN :
        Followed /\ ProcessTranscode(t, ffmpegOk, uploadOk, ok)
  \/ \E t \in TaskIds, ok \in BOOLEAN : Followed /\ ProcessReady(t, ok)

\* the deadline of a task's ctx passes, or the worker process is lost
FaultStep ==
  \/ \E t \in TaskIds : Followed /\ Timeout(t)
  \/ \E t \in TaskIds : Followed /\ Crash(t)

\* every interleaving in which the broker delivers no task twice
NextNoDup ==
  \/ ApiStep
  \/ SweepStep
  \/ WorkerStep
  \/ FaultStep

\* every interleaving of the API, the sweep, the workers and the broker
Next == NextNoDup \/ \E t \in TaskIds : DuplicateDelivery(t)

Spec == Init /\ [][Next]_vars

NoDupSpec == Init /\ [][NextNoDup]_vars

\* the same program with out recorded
InitWatch ==
  /\ stream = NoStream
  /\ hist = <<>>
  /\ InitLimiter
  /\ InitExt
  /\ jobs = [id \in JobIds |-> NoJob]
  /\ created = 0
  /\ tasks = [t \in TaskIds |-> NoTask]
  /\ blobs = {}
  /\ inflight = [id \in JobIds |-> 0]
  /\ retrying = [id \in JobIds |-> NoURL]
  /\ enqueuing = [id \in JobIds |-> NoEnqueue]
  /\ out = NoOut
  /\ watch = TRUE
  /\ rerun = NoRerun

\* the API and the workers, without the sweep
NextWatch ==
  \/ ApiStep
  \/ WorkerStep
  \/ FaultStep

WatchSpec == InitWatch /\ [][NextWatch]_vars

\* the workers and asynq keep running: a task that can be worked on is worked on
NextFair ==
  \/ \E dbOk \in BOOLEAN : CreateJobHandler(CreateInput(TRUE, FALSE, URLDouyin), dbOk)
  \/ \E id \in JobIds, enqOk \in BOOLEAN : CreateEnqueue(id, enqOk)
  \/ Work
  \/ \E t \in TaskIds : Timeout(t)
  \/ \E t \in TaskIds : Crash(t)

FairSpec == Init /\ [][NextFair]_vars /\ WF_vars(Work)

\* GET /jobs/{id}/events: the stream is opened, polls, writes a keepalive or
\* loses its client
StreamStep ==
  \/ \E id \in JobIds, dbOk \in BOOLEAN, signOk \in BOOLEAN : StreamOpen(id, dbOk, signOk)
  \/ \E dbOk \in BOOLEAN, signOk \in BOOLEAN : StreamPoll(dbOk, signOk)
  \/ StreamKeepalive
  \/ StreamDisconnect

\* a job, its task, the sweep and one observer of the job's status stream.
\* While the stream is open the next write comes at once or after a second has
\* passed since the row the stream accepted last
NextStream ==
  \/ CreateStep
  \/ WorkerStep
  \/ SweepStep
  \/ Followed /\ stream.pc = "open" /\ DbTick(stream.lastUpdated + TicksPerSecond)
  \/ StreamStep

StreamSpec == Init /\ [][NextStream]_vars

\* the rate limit middleware under requests of two clients
NextLimiter ==
  \/ \E t \in Instants : Tick(t)
  \/ \E path \in Paths, key \in Keys : Request(path, key)
  \/ \E r \in ReqIds : AllowLocked(r)

LimiterSpec == Init /\ [][NextLimiter]_vars

\* the task of job 1 and its redelivery, run one after the other with the same
\* outcomes of the collaborators both times
InitRerun ==
  /\ stream = NoStream
  /\ hist = <<>>
  /\ InitLimiter
  /\ InitExt
  /\ jobs = [id \in JobIds |-> IF id = 1 THEN NewJob(1, URLDouyin, "douyin", 1) ELSE NoJob]
  /\ created = 1
  /\ tasks = [t \in TaskIds |-> IF t = 1 THEN Enqueue([u \in TaskIds |-> NoTask], 1, URLDouyin)[1]
                                          ELSE NoTask]
  /\ blobs = {}
  /\ inflight = [id \in JobIds |-> 0]
  /\ retrying = [id \in JobIds |-> NoURL]
  /\ enqueuing = [id \in JobIds |-> NoEnqueue]
  /\ out = NoOut
  /\ watch = FALSE
  /\ rerun \in [on : {TRUE}, phase : {0}, o : Outcomes, before : {NoJob}]

\* asynq runs task t when no other task of the job is running, and no more
\* than two handler invocations are followed
RunOnce(t) ==
  /\ rerun.phase < 2
  /\ \A u \in TaskIds \ {t} : tasks[u].pc \notin RunningPcs

\* the stretches of processJob under the outcomes drawn at the start
NextRerun ==
  \/ \E t \in TaskIds : RunOnce(t) /\ ProcessStart(t, rerun.o.mkdirOk, rerun.o.db[1])
  \/ \E t \in TaskIds : RunOnce(t) /\ ProcessDownload(t, rerun.o.reply, rerun.o.fetchOk, rerun.o.db[2])
  \/ \E t \in TaskIds : RunOnce(t) /\ ProcessTranscode(t, rerun.o.ffmpegOk, rerun.o.uploadOk, rerun.o.db[3])
  \/ \E t \in TaskIds : RunOnce(t) /\ ProcessReady(t, rerun.o.db[4])
  \/ \E t \in TaskIds : DuplicateDelivery(t)

RerunSpec == InitRerun /\ [][NextRerun]_vars

\* a job, its task and an observer of the job's status stream who stays
\* connected: the worker goes on, and the ticker of the stream goes on firing
\* with the store and the signing working
NextObserve ==
  \/ CreateStep
  \/ WorkerStep
  \/ \E id \in JobIds, dbOk \in BOOLEAN, signOk \in BOOLEAN : StreamOpen(id, dbOk, signOk)
  \/ \E dbOk \in BOOLEAN, signOk \in BOOLEAN : StreamPoll(dbOk, signOk)
  \/ StreamKeepalive

ObserveSpec ==
  Init /\ [][NextObserve]_vars /\ WF_vars(StreamPoll(TRUE, TRUE))

\* the API behind its rate limit middleware: one client that creates a job and
\* retries it, and a worker whose workspace cannot be created
GatewayInputs ==
  {CreateInput(TRUE, FALSE, URLDouyin), CreateInput(TRUE, FALSE, URLBilibili),
   CreateInput(TRUE, FALSE, URLOther), CreateInput(FALSE, FALSE, NoURL)}

NextGateway ==
  \/ \E path \in {PathJobs, PathRetry} : Request(path, "10.0.0.1")
  \/ \E r \in ReqIds : rateLimitMiddleware(r)
  \/ \E r \in ReqIds, in \in GatewayInputs, dbOk \in BOOLEAN : ServeCreate(r, in, dbOk)
  \/ \E id \in JobIds, enqOk \in BOOLEAN : CreateEnqueue(id, enqOk)
  \/ \E r \in ReqIds, id \in JobIds, dbOk \in BOOLEAN : ServeRetry(r, id, dbOk)
  \/ \E id \in JobIds, dbOk \in BOOLEAN : RetryUpdate(id, dbOk)
  \/ \E id \in JobIds, enqOk \in BOOLEAN : RetryEnqueue(id, enqOk)
  \/ \E t \in TaskIds : ProcessStart(t, FALSE, TRUE)

GatewaySpec == InitWatch /\ [][NextGateway]_vars

\* a job, its task and the clients that ask for its download
NextDownload ==
  \/ CreateStep
  \/ WorkerStep
  \/ \E id \in JobIds, dbOk \in BOOLEAN, signOk \in BOOLEAN : DownloadHandler(id, dbOk, signOk)

DownloadSpec == InitWatch /\ [][NextDownload]_vars

\* one call of downloadToFile, against an origin that answers as it likes
InitFetch ==
  /\ stream = NoStream
  /\ hist = <<>>
  /\ InitLimiter
  /\ jobs = [id \in JobIds |-> NoJob]
  /\ created = 0
  /\ tasks = [t \in TaskIds |-> NoTask]
  /\ blobs = {}
  /\ inflight = [id \in JobIds |-> 0]
  /\ retrying = [id \in JobIds |-> NoURL]
  /\ enqueuing = [id \in JobIds |-> NoEnqueue]
  /\ out = NoOut
  /\ watch = FALSE
  /\ rerun = NoRerun
  /\ dbNow = 0
  /\ sweep = [s \in SweepIds |-> NoSweep]
  /\ fetch \in {[NoFetch EXCEPT !.file = f] :
                  f \in {NoFile} \cup {File(SubSeq(Media, 1, n)) : n \in 0..MaxLen}}

NextFetch ==
  \/ FetchStart
  \/ \E r \in UNION {Replies(o) : o \in 0..MaxLen} : FetchAttempt(r)
  \/ FetchBackoff
  \/ FetchCancel
  \/ FetchCtxDone

FetchSpec == InitFetch /\ [][NextFetch]_vars

\* a call of downloadToFile goes on: client.Do ends by its Timeout, the
\* backoff by its timer
FetchFairSpec == FetchSpec /\ WF_vars(NextFetch)

\* the jobs table under a caller of cleanupJobs, job creation and the status
\* writes of workers and retry requests.  The table starts with any rows
\* created at 1..MaxAge, queued as they were inserted or ready, three writes
\* later, with their blob in the bucket; now is after all of that
StoredRows(id) ==
  {NoJob} \cup
  {NewJob(id, URLDouyin, "douyin", c) : c \in 1..MaxAge} \cup
  {[NewJob(id, URLDouyin, "douyin", c) EXCEPT
      !.status = StatusReady, !.mp3 = [valid |-> TRUE, key |-> ObjectKey(id)],
      !.updatedAt = c + 3] : c \in 1..MaxAge}

InitStore ==
  /\ stream = NoStream
  /\ hist = <<>>
  /\ InitLimiter
  /\ jobs \in {js \in [RowIds -> UNION {StoredRows(id) : id \in RowIds}] :
                 /\ \A id \in RowIds : js[id] \in StoredRows(id)
                 /\ js[MaxRows] = NoJob}
  /\ created = MaxRows - 1
  /\ tasks = [t \in TaskIds |-> NoTask]
  /\ blobs = {jobs[id].mp3.key : id \in {i \in RowIds : jobs[i].mp3.valid}}
  /\ inflight = [id \in JobIds |-> 0]
  /\ retrying = [id \in JobIds |-> NoURL]
  /\ enqueuing = [id \in JobIds |-> NoEnqueue]
  /\ out = NoOut
  /\ watch = TRUE
  /\ rerun = NoRerun
  /\ dbNow = MaxAge + 4
  /\ sweep = [s \in SweepIds |-> NoSweep]
  /\ fetch = NoFetch

\* the table is followed until a row has been written MaxWrites times at one
\* reading of the database clock
StoreFollowed == \A id \in RowIds : jobs[id].updatedAt < dbNow + MaxWrites - 1

\* the jobs table under one call of cleanupJobs at a time, job creation and
\* the status writes of the workers and the retry handler
NextStore ==
  \/ SweepCall
  \/ StoreFollowed /\ StoreInsert(URLBilibili)
  \/ \E id \in RowIds : \E u \in StatusWrites(id) : StoreFollowed /\ StoreWrite(id, u)

StoreSpec == InitStore /\ [][NextStore]_vars

\* the same table under calls of cleanupJobs that run at the same time (two
\* POST /admin/cleanup, or one and the cleanup ticker) and job creation
NextSweepers ==
  \/ \E s \in SweepIds, before \in Cutoffs : SweepStart(s, before)
  \/ \E s \in SweepIds, dbOk \in BOOLEAN : SweepList(s, dbOk)
  \/ \E s \in SweepIds, ok \in BOOLEAN : SweepObject(s, ok)
  \/ \E s \in SweepIds, dbOk \in BOOLEAN : SweepDelete(s, dbOk)
  \/ StoreInsert(URLBilibili)

SweepersSpec == InitStore /\ [][NextSweepers]_vars

\* one call of cleanupJobs at a time on a table that nothing else touches; a
\* call that has started goes on
NextSweep == SweepCall

SweepSpec == InitStore /\ [][NextSweep]_vars /\ WF_vars(NextSweep)

(* ------------------------------- claims ------------------------------- *)

Terminal(status) == status \in {StatusReady, StatusFailed, StatusExpired}

\* C1: once a job's status is ready, failed or expired, the only step that
\* changes it is a retry request's update, which sets it to queued
C1_TerminalLeftOnlyByRetry ==
  [][\A id \in JobIds :
       (Terminal(jobs[id].status) /\ jobs'[id] # NoJob /\ jobs'[id].status # jobs[id].status)
         => (jobs'[id].status = StatusQueued /\ inflight'[id] < inflight[id])]_vars

\* C2: a retry request goes on to its update only when it read failed or
\* expired; when it reads a row that is queued, downloading, transcoding or
\* ready it answers 409, and that step changes no row and enqueues no task
C2_RetryOnlyFromFailedOrExpired ==
  [][\A id \in JobIds :
       /\ inflight'[id] > inflight[id] => jobs[id].status \in {StatusFailed, StatusExpired}
       /\ (/\ RetryGet(id, TRUE)
           /\ jobs[id].status \in {StatusQueued, StatusDownloading, StatusTranscoding, StatusReady})
            => /\ out'.code = 409
               /\ inflight' = inflight
               /\ enqueuing' = enqueuing
               /\ jobs' = jobs
               /\ tasks' = tasks]_vars

C2_Witness ==
  /\ out.kind = "http" /\ out.op = "retry" /\ out.code = 409
  /\ jobs[out.job].status = StatusReady

\* C3: when the broker duplicates no delivery, a job never has two tasks
\* that are pending, running or waiting for a retry
C3_OneLiveTaskPerJob ==
  \A id \in JobIds :
    Cardinality({t \in TaskIds : tasks[t].job = id /\ tasks[t].pc \in LivePcs}) <= 1

\* C4: a row has a non-null mp3_url if and only if its status is ready
C4_ResultRefIffReady ==
  \A id \in JobIds :
    jobs[id] # NoJob => (jobs[id].mp3.valid <=> jobs[id].status = StatusReady)

C4_Witness ==
  \E id \in JobIds, t \in TaskIds :
    /\ jobs[id].status = StatusReady /\ jobs[id].mp3.valid
    /\ tasks[t].job = id /\ tasks[t].pc = "pending"

\* C5: a row has a non-null error if and only if its status is failed
C5_ErrorIffFailed ==
  \A id \in JobIds :
    jobs[id] # NoJob => (jobs[id].error.valid <=> jobs[id].status = StatusFailed)

C5_Witness ==
  \E id \in JobIds, t \in TaskIds :
    /\ jobs[id].status = StatusFailed /\ jobs[id].error.valid
    /\ tasks[t].job = id /\ tasks[t].pc = "retry"

\* C6: when a handler invocation returns an error and asynq archives the task
\* (SkipRetry, or the retry budget is spent), the row is failed with a
\* non-empty error
C6_ArchivedMeansFailed ==
  (out.kind = "return" /\ out.err # "" /\ tasks[out.task].pc = "archived" /\ jobs[out.job] # NoJob)
    => /\ jobs[out.job].status = StatusFailed
       /\ jobs[out.job].error.valid
       /\ jobs[out.job].error.str # ""

\* C7: every job whose task was enqueued eventually has status ready or failed
C7_EventuallyTerminal ==
  \A id \in JobIds :
    (\E t \in TaskIds : tasks[t].job = id)
      ~> (jobs[id] = NoJob \/ jobs[id].status \in {StatusReady, StatusFailed})

\* C8: when a handler invocation is aborted by its deadline, the row is failed
C8_TimeoutRecordsFailure ==
  (out.kind = "return" /\ out.err = ErrCtx /\ jobs[out.job] # NoJob)
    => jobs[out.job].status = StatusFailed

\* the errors of parseWithParser and the empty-media error of downloadWithParser
ResolveErrs ==
  {ErrParserRequest, ErrParserHTTP, ErrParserDecode, ErrParserNotSucc, ErrNoMedia, ErrEmptyMedia}

\* C9: when resolving fails, the row is failed, the handler returns SkipRetry
\* and the task is not run again
C9_ResolveFailureNotRetried ==
  (out.kind = "return" /\ out.err \in ResolveErrs /\ jobs[out.job] # NoJob)
    => /\ jobs[out.job].status = StatusFailed
       /\ out.skip
       /\ tasks[out.task].pc = "archived"

\* C10: a second run of the task, with the same outcomes of the collaborators,
\* on a job the first run left ready or failed, leaves the same status, the
\* same mp3_url and an error exactly when there was one
C10_RerunSameTerminal ==
  (rerun.phase = 2 /\ Terminal(rerun.before.status))
    => /\ jobs[1].status = rerun.before.status
       /\ jobs[1].mp3 = rerun.before.mp3
       /\ jobs[1].error.valid = rerun.before.error.valid

C10_Witness ==
  rerun.phase = 2 /\ rerun.before.status = StatusReady /\ jobs[1].status = StatusReady

\* C11: a GET /jobs/{id} that is the step right after the POST /jobs that
\* answered 202 with that id finds the row, and when it answers 200 its body
\* has status queued, error null and mp3_url null
C11_GetAfterCreateIsQueued ==
  [][\A id \in JobIds :
       (/\ out.kind = "http" /\ out.op = "create" /\ out.code = 202 /\ out.job = id
        /\ out'.kind = "http" /\ out'.op = "get" /\ out'.job = id)
         => /\ out'.code \in {200, 500}
            /\ out'.code = 200 => /\ out'.body.status = StatusQueued
                                  /\ ~out'.body.error.valid
                                  /\ ~out'.body.mp3.valid]_vars

C11_Witness ==
  /\ out.kind = "http" /\ out.op = "get" /\ out.code = 200
  /\ out.body.status = StatusQueued
  /\ \E t \in TaskIds : tasks[t] = [job |-> out.job, url |-> URLDouyin, pc |-> "pending", retried |-> 0]

\* C12: a retry request for a job whose row exists but whose task was never
\* enqueued (the Enqueue of its create has failed, no request is before its
\* Enqueue) is not refused with 409
C12_RetryAfterFailedEnqueueAccepted ==
  (/\ out.kind = "http" /\ out.op = "retry"
   /\ jobs[out.job] # NoJob
   /\ enqueuing[out.job] = NoEnqueue
   /\ \A t \in TaskIds : tasks[t].job # out.job)
    => out.code # 409

\* C13: a POST /jobs whose body does not decode, has a blank url, holds no
\* URL or names an unsupported platform answers 400, and that step inserts
\* no row and enqueues no task
C13_InvalidCreateChangesNothing ==
  [][(/\ out'.kind = "http" /\ out'.op = "create"
      /\ (~out'.input.jsonOk \/ out'.input.blank \/ ~out'.input.hasURL \/ ~out'.input.supported))
       => /\ out'.code = 400
          /\ jobs' = jobs
          /\ created' = created
          /\ tasks' = tasks]_vars

C13_Witness ==
  /\ out.kind = "http" /\ out.op = "create" /\ out.code = 400
  /\ out.input.jsonOk /\ ~out.input.blank /\ out.input.hasURL /\ ~out.input.supported

\* the snapshots among the events the stream has written
Snapshots == SelectSeq(stream.events, LAMBDA e : e.kind = "snapshot")

StatusesOf(seq) == [i \in 1..Len(seq) |-> seq[i].status]

\* seq with every run of equal neighbours reduced to one element
RECURSIVE Dedup(_)
Dedup(seq) ==
  IF Len(seq) <= 1 THEN seq
  ELSE IF seq[1] = seq[2] THEN Dedup(Tail(seq))
  ELSE <<seq[1]>> \o Dedup(Tail(seq))

\* a is b with some elements left out
RECURSIVE IsSubseq(_, _)
IsSubseq(a, b) ==
  IF a = <<>> THEN TRUE
  ELSE IF b = <<>> THEN FALSE
  ELSE IF a[1] = b[1] THEN IsSubseq(Tail(a), Tail(b))
  ELSE IsSubseq(a, Tail(b))

\* C14: a stream that was opened on a queued job and has ended with a terminal
\* snapshot has written exactly one snapshot for each status the row took
\* from the opening to that terminal status, in that order
C14_StreamEmitsEveryStatus ==
  (/\ stream.pc = "closed"
   /\ Len(Snapshots) > 0
   /\ Snapshots[1].status = StatusQueued
   /\ Terminal(Snapshots[Len(Snapshots)].status))
    => StatusesOf(Snapshots) = Dedup(StatusesOf(hist))

\* C15: a snapshot with status ready, failed or expired is the last event of
\* the stream (no snapshot and no keepalive follows it), and the stream has
\* ended once it is written
C15_StreamEndsAtTerminal ==
  \A i \in 1..Len(stream.events) :
    (stream.events[i].kind = "snapshot" /\ Terminal(stream.events[i].status))
      => (i = Len(stream.events) /\ stream.pc = "closed")

C15_Witness ==
  /\ stream.pc = "closed"
  /\ Len(stream.events) >= 3
  /\ stream.events[Len(stream.events)].status = StatusFailed
  /\ \E i \in 1..Len(stream.events) : stream.events[i].kind = "keepalive"

\* C16: the snapshots of a stream are, in order, states the row held since
\* the stream was opened, with some of them left out
C16_SnapshotsAreSubsequence ==
  IsSubseq(Snapshots, hist)

C16_Witness ==
  /\ stream.pc = "closed"
  /\ Len(Snapshots) >= 2
  /\ Len(hist) > Len(Snapshots)
  /\ Snapshots[Len(Snapshots)].status = StatusReady

\* C17: in every window of every client key (the life of one rateEntry) at
\* most Limit requests are admitted, whatever the interleaving of the
\* requests, and a request is rejected only when the Limit requests of its
\* window were admitted
C17_AtMostLimitPerWindow ==
  /\ \A k \in Keys :
       /\ admitted[k] <= Limit
       /\ rl.entries[k].present => rl.entries[k].count = admitted[k]
  /\ rlOut.kind = "limited" => admitted[rlOut.key] = Limit

C17_Witness ==
  /\ rlOut.kind = "limited"
  /\ admitted[rlOut.key] = Limit
  /\ \E r \in ReqIds : reqs[r].pc = "read" /\ reqs[r].key = rlOut.key

\* C18: the retry-after of a rejected request is the time left until the
\* reset of the key's window, never negative and never more than the window;
\* the Retry-After sent is that time in whole seconds, 1 at least
C18_RetryAfterIsTimeLeft ==
  rlOut.kind = "limited" =>
    LET left == rl.entries[rlOut.key].reset - rlOut.at
        diff == rlOut.seconds * TicksPerSecond - rlOut.retryAfter
    IN /\ rl.entries[rlOut.key].present
       /\ rlOut.retryAfter = IF left < 0 THEN 0 ELSE left
       /\ rlOut.retryAfter >= 0
       /\ rlOut.retryAfter <= Window
       /\ rlOut.seconds >= 1
       /\ rlOut.seconds <= WindowSeconds
       /\ rlOut.retryAfter >= TicksPerSecond => (2 * diff <= TicksPerSecond /\ 2 * diff >= -TicksPerSecond)

C18_Witness ==
  /\ rlOut.kind = "limited"
  /\ rlOut.retryAfter = Window - 1
  /\ rlOut.seconds = WindowSeconds

\* C19: a request that reads a time after the reset of its key's window
\* starts a new window with count 0 and is admitted, whatever the count of the
\* old window was
C19_FreshWindowAfterElapse ==
  (/\ rlOut.kind \in {"admitted", "limited"}
   /\ rlOut.prior.present
   /\ rlOut.now > rlOut.prior.reset)
    => /\ rlOut.kind = "admitted"
       /\ rlOut.remaining = Limit - 1
       /\ admitted[rlOut.key] = 1
       /\ rl.entries[rlOut.key] = [present |-> TRUE, count |-> 1, reset |-> rlOut.now + Window]

C19_Witness ==
  /\ rlOut.kind = "admitted"
  /\ rlOut.prior.present
  /\ rlOut.prior.count = Limit
  /\ rlOut.now > rlOut.prior.reset

\* C20: a request to /healthz or to a path that ends in /events is handed to
\* next, and that step leaves the limiter's entries, lastCleanup and waiting
\* requests as they were
C20_ExemptPathsBypassLimiter ==
  [][(rlOut'.kind # "none" /\ rlOut'.path \in {"/healthz", "/jobs/1/events"})
       => /\ rlOut'.kind = "pass"
          /\ rl' = rl
          /\ admitted' = admitted
          /\ reqs' = reqs]_vars

C20_Witness ==
  /\ rlOut.kind = "pass"
  /\ rlOut.path = "/jobs/1/events"
  /\ rl.entries[rlOut.key].present
  /\ rl.entries[rlOut.key].count = Limit
  /\ clock <= rl.entries[rlOut.key].reset

\* C21: a step removes a row from the jobs table only if it is the
\* DeleteJobsBefore of a sweep and the row was created before that sweep's
\* cutoff: a row created at or after the cutoff is never deleted, whatever
\* the table holds and however rows are inserted and written meanwhile
C21_SweepSparesRowsFromCutoffOn ==
  [][\A id \in RowIds :
       (jobs[id] # NoJob /\ jobs'[id] = NoJob)
         => \E s \in SweepIds : /\ sweep[s].pc = "delete" /\ sweep'[s].pc = "done"
                                /\ jobs[id].createdAt < sweep[s].before]_vars

C21_Witness ==
  /\ \E s \in SweepIds :
       /\ sweep[s].pc = "done" /\ ~sweep[s].err /\ sweep[s].deletedJobs > 0
       /\ \E id \in RowIds : jobs[id] # NoJob /\ jobs[id].createdAt = sweep[s].before
  /\ \E id \in RowIds : jobs[id].status = StatusFailed
  /\ jobs[MaxRows] # NoJob

\* C22: when a call of cleanupJobs has returned without an error, the next
\* call with the same cutoff deletes no row
C22_SecondSweepDeletesNothing ==
  [][\A s \in SweepIds :
       (sweep[s].pc = "delete" /\ sweep'[s].pc = "done" /\ sweep[s].prev = sweep[s].before)
         => (jobs' = jobs /\ sweep'[s].deletedJobs = 0)]_vars

C22_Witness ==
  /\ \E s \in SweepIds :
       /\ sweep[s].pc = "done" /\ ~sweep[s].err
       /\ sweep[s].prev = sweep[s].before /\ sweep[s].prevJobs > 0
  /\ jobs[MaxRows] # NoJob

\* C23: a call of cleanupJobs that has started listing returns, whatever the
\* table holds, also when the rows before the cutoff fill a page or more
C23_SweepTerminates == (sweep[1].pc = "list") ~> (sweep[1].pc = "done")

\* C27: UpdateJobStatus(id, status, error, mp3_url) on an existing row sets
\* that row's status, error and mp3_url to the values given and its
\* updated_at to NOW(), a later time than it was and not before the database
\* clock, in one step, leaves its id, source_url, platform and created_at as
\* they were, and leaves every other row as it was
C27_UpdateStatusFrame ==
  [][\A id \in RowIds : \A u \in StatusWrites(id) :
       (StoreWrite(id, u) /\ jobs[id] # NoJob)
         => /\ jobs'[id].status = u.status
            /\ jobs'[id].error = u.error
            /\ jobs'[id].mp3 = u.mp3
            /\ jobs'[id].updatedAt > jobs[id].updatedAt
            /\ jobs'[id].updatedAt >= dbNow
            /\ jobs'[id].id = jobs[id].id
            /\ jobs'[id].sourceURL = jobs[id].sourceURL
            /\ jobs'[id].platform = jobs[id].platform
            /\ jobs'[id].createdAt = jobs[id].createdAt
            /\ \A o \in RowIds \ {id} : jobs'[o] = jobs[o]]_vars

C27_Witness ==
  /\ \E id \in RowIds :
       /\ jobs[id].status = StatusFailed /\ jobs[id].error.valid /\ ~jobs[id].mp3.valid
       /\ jobs[id].createdAt < dbNow /\ jobs[id].updatedAt = dbNow
       /\ jobs[id].sourceURL = URLDouyin /\ blobs = {ObjectKey(id), ObjectKey(MaxRows - 1)}
  /\ jobs[MaxRows - 1].status = StatusReady /\ jobs[MaxRows - 1].updatedAt < dbNow
  /\ jobs[MaxRows].sourceURL = URLBilibili

\* C24: when downloadToFile returns nil, the file at destPath is the whole
\* media file, as one 200 response read to its end leaves it, whatever
\* failed attempts (5xx, 429, no response, a body cut short) came before
C24_FetchLeavesWholeFile ==
  fetch.pc = "ok" => fetch.file = File(Media)

C24_Witness ==
  /\ fetch.pc = "ok" /\ Len(fetch.log) = 3
  /\ fetch.log[1].code = 200 /\ fetch.log[1].got \in 1..(MaxLen - 1)
  /\ fetch.log[2].code = 500 /\ fetch.log[2].range = fetch.log[1].got
  /\ fetch.log[3].code = 206 /\ fetch.log[3].range = fetch.log[1].got

\* C25: an attempt that sent a Range and got 416 leaves no file at destPath
\* and fails with a retryable error (the loop goes on unless it was the last
\* attempt); the attempt after a 416 sends no Range header, and what it
\* receives is written from byte 0
C25_RangeNotSatisfiableRestarts ==
  [][Len(fetch'.log) > Len(fetch.log) =>
       LET n == Len(fetch'.log)
           e == fetch'.log[n]
       IN /\ (e.code = 416 /\ e.range > 0)
               => /\ ~fetch'.file.exists
                  /\ fetch'.pc = IF fetch.attempt < maxAttempts THEN "backoff" ELSE "failed"
          /\ (n > 1 /\ fetch'.log[n - 1].code = 416)
               => /\ e.range = 0
                  /\ e.code = 200 => fetch'.file = File(SubSeq(Media, 1, e.got))]_vars

C25_Witness ==
  /\ fetch.pc = "ok" /\ Len(fetch.log) = 3
  /\ fetch.log[1].code = 200 /\ fetch.log[1].got \in 1..(MaxLen - 1)
  /\ fetch.log[2].code = 416 /\ fetch.log[2].range = fetch.log[1].got
  /\ fetch.log[3].code = 200 /\ fetch.log[3].range = 0

\* C26: GET /jobs/{id}/download leaves the row, the queue and the bucket as
\* they are; it answers 302 only for a row whose status is ready, with the
\* signed URL of the row's key as Location; when the row is read, it answers
\* 404 if there is none and 409 if its status is not ready, and 302 for a
\* ready row whose URL is signed
C26_DownloadRedirectsOnlyWhenReady ==
  [][\A id \in JobIds : \A dbOk \in BOOLEAN, signOk \in BOOLEAN :
       DownloadHandler(id, dbOk, signOk)
         => /\ jobs' = jobs /\ tasks' = tasks /\ blobs' = blobs
            /\ out'.code = 302
                 => /\ jobs[id].status = StatusReady
                    /\ out'.location.key = ObjectKey(id)
            /\ (dbOk /\ jobs[id] = NoJob) => out'.code = 404
            /\ (dbOk /\ jobs[id] # NoJob /\ jobs[id].status # StatusReady) => out'.code = 409
            /\ (dbOk /\ signOk /\ jobs[id].status = StatusReady) => out'.code = 302]_vars

C26_Witness ==
  /\ out.kind = "http" /\ out.op = "download" /\ out.code = 302
  /\ out.location.key = ObjectKey(out.job)
  /\ jobs[out.job].status = StatusReady

\* C28: an execution of processJob enters resolve and fetch only from its
\* start and with downloading written, enters transcode only from fetch and
\* with transcoding written, has uploaded only after transcode, and returns
\* nil only after the upload and with ready and the key written; a row gets
\* downloading, transcoding or ready only by the execution that is at that
\* write.  So an execution whose write fails does not go on to the next stage
C28_StagesFollowStatusWrites ==
  [][/\ \A t \in TaskIds :
          LET id == tasks[t].job
              written(status) == jobs[id] # NoJob => jobs'[id].status = status
          IN (tasks'[t].pc # tasks[t].pc /\ tasks[t].pc # "none")
               => /\ tasks'[t].pc = "downloading"
                       => (tasks[t].pc \in {"pending", "retry"} /\ written(StatusDownloading))
                  /\ tasks'[t].pc = "transcoding"
                       => (tasks[t].pc = "downloading" /\ written(StatusTranscoding))
                  /\ tasks'[t].pc = "uploaded"
                       => (tasks[t].pc = "transcoding" /\ ObjectKey(id) \in blobs')
                  /\ tasks'[t].pc = "done"
                       => /\ tasks[t].pc = "uploaded"
                          /\ written(StatusReady)
                          /\ jobs[id] # NoJob => jobs'[id].mp3 = [valid |-> TRUE, key |-> ObjectKey(id)]
     /\ \A id \in JobIds :
          LET moved(from, to) ==
                \E t \in TaskIds : /\ tasks[t].job = id /\ tasks[t].pc \in from
                                    /\ tasks'[t].pc = to
          IN (jobs'[id] # jobs[id] /\ jobs'[id] # NoJob)
               => /\ jobs'[id].status = StatusDownloading => moved({"pending", "retry"}, "downloading")
                  /\ jobs'[id].status = StatusTranscoding => moved({"downloading"}, "transcoding")
                  /\ jobs'[id].status = StatusReady => moved({"uploaded"}, "done")]_vars

C28_Witness ==
  \E t \in TaskIds :
    /\ tasks[t].pc = "done" /\ tasks[t].retried > 0
    /\ jobs[tasks[t].job].status = StatusReady
    /\ jobs[tasks[t].job].mp3 = [valid |-> TRUE, key |-> ObjectKey(tasks[t].job)]
    /\ ObjectKey(tasks[t].job) \in blobs

\* the errors of the stages of processJob: resolve, fetch, transcode, upload
StageErrs == ResolveErrs \cup {ErrDownload, ErrFFmpeg, ErrUpload}

\* C29: when a handler invocation returns the error of a failed resolve,
\* fetch, transcode or upload to asynq, the row is failed and its error is
\* that error's message cut to MaxErrLen bytes (and the "..." mark)
C29_StageFailureRecordedBeforeReturn ==
  (out.kind = "return" /\ out.err \in StageErrs /\ jobs[out.job] # NoJob)
    => /\ jobs[out.job].status = StatusFailed
       /\ jobs[out.job].error = [valid |-> TRUE, str |-> truncate(out.err, MaxErrLen)]
       /\ Len(jobs[out.job].error.str) <= MaxErrLen + 3

\* C30: a step puts at most one task on the queue, and only with a 202 answer
\* to a create or a retry: the task is pending and carries the ID of the job
\* of that answer and the source URL of its row.  Every step that answers 202
\* puts one on the queue, and a step that answers anything else (400, 404,
\* 409, 429, 500) puts none
C30_OneTaskPerAcceptedRequest ==
  [][LET added == {t \in TaskIds : tasks[t].pc = "none" /\ tasks'[t].pc # "none"}
     IN /\ Cardinality(added) <= 1
        /\ \A t \in added :
             /\ out'.kind = "http" /\ out'.code = 202 /\ out'.op \in {"create", "retry"}
             /\ tasks'[t].pc = "pending"
             /\ tasks'[t].job = out'.job
             /\ jobs'[out'.job] # NoJob
             /\ tasks'[t].url = jobs'[out'.job].sourceURL
        /\ (jobVars' # jobVars /\ out'.kind = "http" /\ out'.code = 202) => Cardinality(added) = 1
        /\ (jobVars' # jobVars /\ out'.kind = "http" /\ out'.code # 202) => tasks' = tasks]_vars

C30_Witness ==
  /\ out.kind = "http" /\ out.op = "retry" /\ out.code = 202
  /\ jobs[out.job].sourceURL = URLBilibili
  /\ \A t \in TaskIds : tasks[t].job = out.job /\ tasks[t].url = URLBilibili
  /\ rl.entries["10.0.0.1"].count = Limit

\* the error of the attempt that log entry e records
AttemptErr(e) ==
  IF e.code = 0 THEN "Get: connection reset"
  ELSE IF e.code \in {200, 206} THEN "unexpected EOF"
  ELSE StatusErr(e.code)

\* C31: downloadToFile makes at most maxAttempts attempts and returns.  An
\* attempt answered with a status that is not 200, 206, 416, 429 or 5xx is the
\* last one: the call fails with its error.  When attempt maxAttempts fails,
\* the call fails with the error of that attempt
C31_FetchEndsWithinMaxAttempts ==
  /\ [](Len(fetch.log) <= maxAttempts /\ fetch.attempt <= maxAttempts)
  /\ [][Len(fetch'.log) > Len(fetch.log) =>
         LET e == fetch'.log[Len(fetch'.log)]
         IN /\ Len(fetch'.log) = fetch.attempt
            /\ (e.code \notin {0, 200, 206, 416, 429} /\ e.code < 500)
                 => fetch'.pc = "failed" /\ fetch'.err = AttemptErr(e)
            /\ (fetch.attempt = maxAttempts /\ fetch'.pc # "ok")
                 => fetch'.pc = "failed" /\ fetch'.err = AttemptErr(e)]_vars
  /\ [][fetch.pc \in {"ok", "failed"} => fetch' = fetch]_vars
  /\ (fetch.pc = "running") ~> (fetch.pc \in {"ok", "failed"})

C31_Witness ==
  /\ fetch.pc = "failed" /\ Len(fetch.log) = maxAttempts
  /\ fetch.log[1].code = 429 /\ fetch.log[2].code = 0 /\ fetch.log[3].code = 500
  /\ fetch.err = "download http status 500"
  /\ fetch.ctx = "live"

\* C32: when ctx is done while downloadToFile waits between two attempts, the
\* call returns ctx.Err() and makes no attempt after that: nothing is requested
\* and the file stays as it is
C32_CancelledBackoffReturns ==
  [][(fetch.pc = "backoff" /\ fetch.ctx = "done")
       => /\ fetch'.pc = "failed" /\ fetch'.err = ErrCtx
          /\ fetch'.log = fetch.log /\ fetch'.file = fetch.file
          /\ fetch'.attempt = fetch.attempt]_vars

C32_Witness ==
  /\ fetch.pc = "failed" /\ fetch.err = ErrCtx /\ fetch.ctx = "done"
  /\ Len(fetch.log) = 1 /\ fetch.log[1].code = 200 /\ fetch.log[1].got \in 1..(MaxLen - 1)
  /\ fetch.file = File(SubSeq(Media, 1, fetch.log[1].got))

\* C33 as stated: a poll writes a snapshot only for a row whose updatedAt is
\* later than that of the last row accepted or whose status differs from it,
\* and no two consecutive snapshots carry the same status and updatedAt
C33_ConsecutiveSnapshotsDiffer ==
  \A i \in 1..(Len(Snapshots) - 1) :
    Snapshots[i].status # Snapshots[i + 1].status
      \/ Snapshots[i].updatedAt # Snapshots[i + 1].updatedAt

\* C33 amended: a poll writes a snapshot only for a row whose updatedAt is
\* later than that of the last row accepted or whose status differs from it,
\* and a poll that finds the row as accepted writes nothing; so no two
\* consecutive snapshots are built from rows of the same status and updatedAt
C33_PollEmitsOnlyChangedRows ==
  [][(stream.pc = "open" /\ stream' # stream)
       => LET row == jobs[stream.id]
              old == SelectSeq(stream.events, LAMBDA e : e.kind = "snapshot")
              new == SelectSeq(stream'.events, LAMBDA e : e.kind = "snapshot")
          IN /\ Len(new) <= Len(old) + 1
             /\ Len(new) > Len(old)
                  => /\ row.updatedAt > stream.lastUpdated \/ row.status # stream.status
                     /\ new[Len(new)].at = row.updatedAt /\ new[Len(new)].status = row.status
                     /\ new[Len(new)].at # old[Len(old)].at
                          \/ new[Len(new)].status # old[Len(old)].status
             /\ (row # NoJob /\ row.updatedAt = stream.lastUpdated /\ row.status = stream.status)
                  => new = old]_vars

C33_Witness ==
  /\ Len(Snapshots) = 3
  /\ Snapshots[2].status = StatusDownloading /\ Snapshots[3].status = StatusDownloading
  /\ Snapshots[2].updatedAt = Snapshots[3].updatedAt
  /\ Snapshots[2].at < Snapshots[3].at

\* C34: when the row of an open stream has reached a terminal status and
\* keeps it, the stream comes to write a snapshot with a terminal status and
\* to end, also after polls on which GetJob or the signing of the URL failed
C34_TerminalSnapshotEventually ==
  (stream.pc = "open" /\ [](stream.id \in JobIds /\ Terminal(jobs[stream.id].status)))
    ~> (/\ stream.pc = "closed"
        /\ Len(Snapshots) > 0
        /\ Terminal(Snapshots[Len(Snapshots)].status))

\* the rows of the table created before the cutoff
RowsBefore(js, before) == {id \in DOMAIN js : js[id] # NoJob /\ js[id].createdAt < before}

\* C35: in a call of cleanupJobs on a table that nothing else writes, the
\* deletes counted in deletedObjects are those of the blobs of the rows before
\* the cutoff, each deleted once: there are never more of them than rows
\* before the cutoff that have a key.  A call that returns without an error
\* has deleted the rows before the cutoff and returns their number as
\* deletedJobs
C35_SweepDeletesEachBlobOnce ==
  /\ [](sweep[1].pc \in {"list", "objects", "delete"}
          => sweep[1].deletedObjects <=
               Cardinality({id \in RowsBefore(jobs, sweep[1].before) : objectKeyFromJob(jobs[id]) # <<>>}))
  /\ [][(sweep[1].pc = "delete" /\ sweep'[1].pc = "done" /\ ~sweep'[1].err)
          => /\ sweep'[1].deletedJobs = Cardinality(RowsBefore(jobs, sweep[1].before))
             /\ RowsBefore(jobs', sweep[1].before) = {}]_vars

\* C36: a DeleteObject that fails does not end the call and is not an error
\* of it: the blob stays, it is not counted in deletedObjects, and the call
\* goes on to the next page or to DeleteJobsBefore, which deletes every row
\* before the cutoff; the call then returns without an error
C36_FailedBlobDeleteDoesNotBlockRows ==
  /\ [][\A s \in SweepIds, ok \in BOOLEAN :
         SweepObject(s, ok)
           => /\ sweep'[s].pc \in {"objects", "list", "delete"} /\ ~sweep'[s].err
              /\ sweep'[s].deletedObjects = sweep[s].deletedObjects + (IF ok THEN 1 ELSE 0)
              /\ ~ok => blobs' = blobs
              /\ jobs' = jobs]_vars
  /\ [][\A s \in SweepIds :
         (sweep[s].pc = "delete" /\ sweep'[s].pc = "done")
           => /\ sweep'[s].err \/ RowsBefore(jobs', sweep[s].before) = {}
              /\ sweep'[s].err => jobs' = jobs
              /\ sweep'[s].deletedObjects = sweep[s].deletedObjects]_vars
  /\ [](\A s \in SweepIds :
          (sweep[s].pc = "done" /\ ~sweep[s].err) => RowsBefore(jobs, sweep[s].before) = {})

C36_Witness ==
  \E s \in SweepIds :
    /\ sweep[s].pc = "done" /\ ~sweep[s].err
    /\ sweep[s].deletedJobs = 1 /\ sweep[s].deletedObjects = 0
    /\ \E id \in RowIds : jobs[id] = NoJob /\ ObjectKey(id) \in blobs

\* C37: when no execution of processJob and no call of cleanupJobs is under
\* way, every object of the bucket is the mp3 of an existing row whose status
\* is ready
C37_NoOrphanBlobs ==
  (/\ \A t \in TaskIds : tasks[t].pc \notin RunningPcs
   /\ \A s \in SweepIds : sweep[s].pc \in {"idle", "done"})
    => \A k \in blobs :
         \E id \in JobIds :
           /\ jobs[id] # NoJob
           /\ jobs[id].status = StatusReady
           /\ jobs[id].mp3 = [valid |-> TRUE, key |-> k]

\* C38: a pass of cleanupLocked (lastCleanup changes) comes a window or more
\* after the pass before it; an entry is taken out of the map only by a pass,
\* and an entry is taken out or replaced by a new one only when its reset time
\* has passed: until then the only change to it is one more request counted
C38_EvictionOncePerWindowOfElapsed ==
  [][rl' # rl =>
       /\ rl'.lastCleanup # rl.lastCleanup
            => /\ rl.lastCleanup = Never \/ rl'.lastCleanup - rl.lastCleanup >= Window
               /\ rl'.lastCleanup <= clock
       /\ \A k \in Keys :
            (rl.entries[k].present /\ rl'.entries[k] # rl.entries[k])
              => \/ /\ rl'.entries[k].present
                    /\ rl'.entries[k].reset = rl.entries[k].reset
                    /\ rl'.entries[k].count = rl.entries[k].count + 1
                 \/ /\ clock > rl.entries[k].reset
                    /\ ~rl'.entries[k].present => rl'.lastCleanup # rl.lastCleanup]_vars

C38_Witness ==
  /\ rl.lastCleanup = Window + 1
  /\ rlOut.kind = "admitted" /\ rlOut.key = "10.0.0.1"
  /\ ~rl.entries["10.0.0.2"].present /\ admitted["10.0.0.2"] > 0
  /\ rl.entries["10.0.0.1"].present

\* C39: the status of every row is queued, downloading, transcoding, ready
\* or failed: no request, no worker execution and no cleanup writes expired
C39_NoRowIsExpired ==
  \A id \in JobIds :
    jobs[id] # NoJob
      => jobs[id].status \in {StatusQueued, StatusDownloading, StatusTranscoding,
                               StatusReady, StatusFailed}

C39_Witness ==
  /\ created = 1 /\ jobs[1] = NoJob
  /\ \E t \in TaskIds : tasks[t].job = 1 /\ tasks[t].pc = "archived" /\ tasks[t].retried > 0
  /\ \E t \in TaskIds : tasks[t].job = 1 /\ tasks[t].pc = "pending"

\* C40: a retry request answered with an error (500) leaves the row of the
\* job as it was: the request whose Enqueue fails does not leave the row
\* queued with no task of the job pending, running or waiting for a retry
C40_FailedRetryLeavesRow ==
  [][\A id \in JobIds :
       RetryEnqueue(id, FALSE)
         => ~(/\ jobs'[id] # NoJob
              /\ jobs'[id].status = StatusQueued
              /\ \A t \in TaskIds : tasks'[t].job = id => tasks'[t].pc \notin LivePcs)]_vars

====
